---- MODULE Spec2Model ----
(***************************************************************************)
(* Brother QL driver: the print session (PrinterConnection::print and      *)
(* get_status over a byte transport), the status decoder, the media        *)
(* catalogue and the lowering of a print job into page blocks.             *)
(* Bytes are naturals 0..255.  A Rust Option is a sequence of length 0     *)
(* (None) or 1 (Some).  Offsets of a status frame are 0-based as in the    *)
(* source: At(frame, o) is frame[o + 1].                                   *)
(***************************************************************************)
EXTENDS Integers, Sequences, FiniteSets, TLC

\* ------------------------------------------------------------------------
\* Bounds of the model
\* ------------------------------------------------------------------------
MaxCopies == 2

MaxImages == 1

ChunkLen == 16

\* copies and CutEvery(n) of the jobs that are lowered
MaxJobCopies == 2

MaxCutEvery == 2

\* images handed to a builder or to from_images, and their raster lines in total
MaxLabels == 2

MaxLines == 300

\* calls of the setters of one builder
MaxSetterCalls == 1

\* ------------------------------------------------------------------------
\* Small helpers
\* ------------------------------------------------------------------------
None == << >>

Some(v) == << v >>

Min(a, b) == IF a < b THEN a ELSE b

At(bytes, o) == bytes[o + 1]

Zeros(n) == [i \in 1..n |-> 0]

\* the byte vectors of a list, one after the other
RECURSIVE Concat(_)
Concat(ss) ==
    IF Len(ss) = 0 THEN << >>
    ELSE IF Len(ss) = 1 THEN ss[1]
    ELSE LET h == Len(ss) \div 2 IN
         Concat(SubSeq(ss, 1, h)) \o Concat(SubSeq(ss, h + 1, Len(ss)))

\* ------------------------------------------------------------------------
\* media.rs: the media catalogue, in declaration order (Media::iter())
\* ------------------------------------------------------------------------
M(n, lt, wmm, wd, lm, col, lmm, ld) ==
    [name |-> n, label_type |-> lt, width_mm |-> wmm, width_dots |-> wd,
     left_margin |-> lm, supports_color |-> col, length_mm |-> lmm,
     length_dots |-> ld]

MediaTable ==
    << M("C12",     "Continuous", 12, 106, 585, FALSE, None, None),
       M("C29",     "Continuous", 29, 306, 408, FALSE, None, None),
       M("C38",     "Continuous", 38, 413, 295, FALSE, None, None),
       M("C50",     "Continuous", 50, 554, 154, FALSE, None, None),
       M("C54",     "Continuous", 54, 590, 130, FALSE, None, None),
       M("C62",     "Continuous", 62, 696, 12,  FALSE, None, None),
       M("C62R",    "Continuous", 62, 696, 12,  TRUE,  None, None),
       M("D17x54",  "DieCut", 17, 165, 555, FALSE, Some(54),  Some(566)),
       M("D17x87",  "DieCut", 17, 165, 555, FALSE, Some(87),  Some(912)),
       M("D23x23",  "DieCut", 23, 236, 442, FALSE, Some(23),  Some(236)),
       M("D29x42",  "DieCut", 29, 306, 408, FALSE, Some(42),  Some(442)),
       M("D29x90",  "DieCut", 29, 306, 408, FALSE, Some(90),  Some(944)),
       M("D38x90",  "DieCut", 38, 413, 295, FALSE, Some(90),  Some(944)),
       M("D39x48",  "DieCut", 39, 425, 289, FALSE, Some(48),  Some(512)),
       M("D52x29",  "DieCut", 52, 578, 142, FALSE, Some(29),  Some(318)),
       M("D54x29",  "DieCut", 54, 602, 59,  FALSE, Some(29),  Some(318)),
       M("D60x86",  "DieCut", 60, 672, 24,  FALSE, Some(86),  Some(902)),
       M("D62x29",  "DieCut", 62, 696, 12,  FALSE, Some(29),  Some(318)),
       M("D62x100", "DieCut", 62, 696, 12,  FALSE, Some(100), Some(1104)),
       M("D12",     "DieCut", 12, 94,  513, FALSE, Some(12),  Some(94)),
       M("D24",     "DieCut", 24, 236, 442, FALSE, Some(24),  Some(236)),
       M("D58",     "DieCut", 58, 618, 51,  FALSE, Some(58),  Some(630)) >>

Media == { MediaTable[i].name : i \in 1..Len(MediaTable) }

MediaIndex(m) == CHOOSE i \in 1..Len(MediaTable) : MediaTable[i].name = m

label_type(m) == MediaTable[MediaIndex(m)].label_type

width_mm(m) == MediaTable[MediaIndex(m)].width_mm

width_dots(m) == MediaTable[MediaIndex(m)].width_dots

left_margin(m) == MediaTable[MediaIndex(m)].left_margin

supports_color(m) == MediaTable[MediaIndex(m)].supports_color

length_mm(m) == MediaTable[MediaIndex(m)].length_mm

length_dots(m) == MediaTable[MediaIndex(m)].length_dots

\* TryFrom<u8> for LabelType: 0x0a continuous, 0x0b die-cut, else an error
LabelType_try_from(value) ==
    IF value = 10 THEN [ok |-> TRUE, v |-> "Continuous"]
    ELSE IF value = 11 THEN [ok |-> TRUE, v |-> "DieCut"]
    ELSE [ok |-> FALSE, v |-> "invalid media type code"]

\* ------------------------------------------------------------------------
\* printer.rs: raster model codes of the status reply
\* ------------------------------------------------------------------------
PrinterModels ==
    << <<"QL560", 49>>, <<"QL570", 50>>, <<"QL580N", 51>>, <<"QL600", 71>>,
       <<"QL650TD", 81>>, <<"QL700", 53>>, <<"QL710W", 54>>, <<"QL720NW", 55>>,
       <<"QL800", 56>>, <<"QL810W", 57>>, <<"QL820NWB", 65>> >>

PrinterModel_try_from(value) ==
    IF \E i \in 1..Len(PrinterModels) : PrinterModels[i][2] = value
    THEN [ok |-> TRUE,
          v |-> PrinterModels[CHOOSE i \in 1..Len(PrinterModels) :
                                  PrinterModels[i][2] = value][1]]
    ELSE [ok |-> FALSE, v |-> "invalid model code"]

\* ------------------------------------------------------------------------
\* commands.rs / status.rs: decoding a 32-byte status reply
\* ------------------------------------------------------------------------
ParseErr(reason) == [ok |-> FALSE, reason |-> reason]

\* VariousModeSettings read from bit 6 alone, the other bits ignored
VariousModeSettings_from_bit6(value) ==
    [ok |-> TRUE, v |-> [auto_cut |-> (value \div 64) % 2 = 1]]

\* TryFrom<u8> for VariousModeSettings: only 0x40 and 0x00 are accepted
VariousModeSettings_try_from(value) ==
    IF value = 64 THEN [ok |-> TRUE, v |-> [auto_cut |-> TRUE]]
    ELSE IF value = 0 THEN [ok |-> TRUE, v |-> [auto_cut |-> FALSE]]
    ELSE [ok |-> FALSE, v |-> "various mode data has unused bits set"]

StatusType_try_from(value) ==
    IF value = 0 THEN [ok |-> TRUE, v |-> "StatusRequestReply"]
    ELSE IF value = 1 THEN [ok |-> TRUE, v |-> "PrintingCompleted"]
    ELSE IF value = 2 THEN [ok |-> TRUE, v |-> "ErrorOccured"]
    ELSE IF value = 4 THEN [ok |-> TRUE, v |-> "TurnedOff"]
    ELSE IF value = 5 THEN [ok |-> TRUE, v |-> "Notification"]
    ELSE IF value = 6 THEN [ok |-> TRUE, v |-> "PhaseChange"]
    ELSE IF value >= 8 /\ value <= 32 THEN [ok |-> FALSE, v |-> "unused status type"]
    ELSE IF value >= 33 /\ value <= 255 THEN [ok |-> FALSE, v |-> "reserved status type"]
    ELSE [ok |-> FALSE, v |-> "invalid status type"]

Phase_try_from(value) ==
    IF value = <<0, 0, 0>> THEN [ok |-> TRUE, v |-> "Receiving"]
    ELSE IF value = <<1, 0, 0>> THEN [ok |-> TRUE, v |-> "Printing"]
    ELSE [ok |-> FALSE, v |-> "invalid phase state"]

Notification_try_from(value) ==
    IF value = 0 THEN [ok |-> TRUE, v |-> "Unavailable"]
    ELSE IF value = 3 THEN [ok |-> TRUE, v |-> "CoolingStarted"]
    ELSE IF value = 4 THEN [ok |-> TRUE, v |-> "CoolingFinished"]
    ELSE [ok |-> FALSE, v |-> "invalid notification number"]

\* check_fixed_field letting offset 24 pass
check_fixed_field_but_last(status, offset, expected_value) ==
    offset = 24 \/ At(status, offset) = expected_value

\* check_fixed_field with the check of offset 6 against 0x30 switched on
check_fixed_field_and_six(status, offset, expected_value) ==
    At(status, offset) = expected_value /\ At(status, 6) = 48

\* the closure check_fixed_field of StatusInformation::try_from
check_fixed_field(status, offset, expected_value) == At(status, offset) = expected_value

\* ErrorFlags built from the two bytes read most significant first
ErrorFlags_from_be_bytes(lo, hi) == 256 * lo + hi

\* ErrorFlags without bit 3, which has no name
ErrorFlags_without_bit3(lo, hi) == lo - (IF (lo \div 8) % 2 = 1 THEN 8 ELSE 0) + 256 * hi

\* ErrorFlags::from_bits_retain(u16::from_le_bytes([lo, hi])): all 16 bits kept
ErrorFlags_from_le_bytes(lo, hi) == lo + 256 * hi

\* the media type byte: 0x00 is "no media", anything else must be a label type
MediaTypeField(b) ==
    IF b = 0 THEN [ok |-> TRUE, v |-> None]
    ELSE IF LabelType_try_from(b).ok THEN [ok |-> TRUE, v |-> Some(LabelType_try_from(b).v)]
    ELSE [ok |-> FALSE, v |-> LabelType_try_from(b).v]

\* TryFrom<&[u8]> for StatusInformation; the checks run in source order and
\* the first failing one decides the error.
StatusInformation_try_from(value) ==
    IF Len(value) # 32 THEN ParseErr("invalid size")
    ELSE IF ~check_fixed_field(value, 0, 128) THEN ParseErr("Print head mark")
    ELSE IF ~check_fixed_field(value, 1, 32) THEN ParseErr("Size")
    ELSE IF ~check_fixed_field(value, 2, 66) THEN ParseErr("Reserved 2")
    ELSE IF ~check_fixed_field(value, 3, 52) THEN ParseErr("Series code")
    ELSE IF ~PrinterModel_try_from(At(value, 4)).ok THEN ParseErr("invalid model code")
    ELSE IF ~check_fixed_field(value, 5, 48) THEN ParseErr("Reserved 5")
    ELSE IF ~check_fixed_field(value, 7, 0) THEN ParseErr("Reserved 7")
    ELSE IF ~MediaTypeField(At(value, 11)).ok THEN ParseErr("invalid media type code")
    ELSE IF ~check_fixed_field(value, 12, 0) THEN ParseErr("Reserved 12")
    ELSE IF ~check_fixed_field(value, 13, 0) THEN ParseErr("Reserved 13")
    ELSE IF ~VariousModeSettings_try_from(At(value, 15)).ok
         THEN ParseErr("various mode data has unused bits set")
    ELSE IF ~check_fixed_field(value, 16, 0) THEN ParseErr("Reserved 16")
    ELSE IF ~StatusType_try_from(At(value, 18)).ok
         THEN ParseErr(StatusType_try_from(At(value, 18)).v)
    ELSE IF ~Phase_try_from(SubSeq(value, 20, 22)).ok THEN ParseErr("invalid phase state")
    ELSE IF ~Notification_try_from(At(value, 22)).ok
         THEN ParseErr("invalid notification number")
    ELSE IF ~check_fixed_field(value, 23, 0) THEN ParseErr("Reserved 23")
    ELSE IF ~check_fixed_field(value, 24, 0) THEN ParseErr("Reserved 24")
    ELSE [ok |-> TRUE,
          model |-> PrinterModel_try_from(At(value, 4)).v,
          errors |-> ErrorFlags_from_le_bytes(At(value, 8), At(value, 9)),
          media_width |-> At(value, 10),
          media_type |-> MediaTypeField(At(value, 11)).v,
          mode |-> VariousModeSettings_try_from(At(value, 15)).v,
          media_length |-> At(value, 17),
          status_type |-> StatusType_try_from(At(value, 18)).v,
          phase |-> Phase_try_from(SubSeq(value, 20, 22)).v,
          notification |-> Notification_try_from(At(value, 22)).v]

\* StatusInformation::has_errors: !self.errors.is_empty()
has_errors(status) == status.errors # 0

\* ------------------------------------------------------------------------
\* printer_connection.rs: validate_status
\* ------------------------------------------------------------------------
\* status_matches_media comparing type and width only, not the length
status_matches_media_nolength(status, media) ==
    LET media_type_matches == status.media_type = Some(label_type(media))
        media_width_matches == status.media_width = width_mm(media)
    IN  media_type_matches /\ media_width_matches

\* the nested fn status_matches_media(status, media)
status_matches_media(status, media) ==
    LET media_type_matches == status.media_type = Some(label_type(media))
        media_width_matches == status.media_width = width_mm(media)
        media_length_matches ==
            IF length_mm(media) = None THEN status.media_length = 0
            ELSE status.media_length = length_mm(media)[1]
    IN  media_type_matches /\ media_width_matches /\ media_length_matches

\* the match taken from the end of the table instead of from its start
likely_match_last(status) ==
    LET hits == { i \in 1..Len(MediaTable) : status_matches_media(status, MediaTable[i].name) }
    IN  IF hits = {} THEN None
        ELSE Some(MediaTable[CHOOSE i \in hits : \A j \in hits : i >= j].name)

\* Media::iter().find(|&m| status_matches_media(status, m)): first in table order
likely_match(status) ==
    LET hits == { i \in 1..Len(MediaTable) : status_matches_media(status, MediaTable[i].name) }
    IN  IF hits = {} THEN None
        ELSE Some(MediaTable[CHOOSE i \in hits : \A j \in hits : i <= j].name)

\* validate_status comparing the status type only, not the phase
validate_status_nophase(status, job_media, expected_type, expected_phase) ==
    IF ~status_matches_media(status, job_media)
    THEN [ok |-> FALSE, kind |-> "MediaMismatch", expected_media |-> job_media,
          reported_media |-> likely_match(status)]
    ELSE IF has_errors(status)
    THEN [ok |-> FALSE, kind |-> "PrinterError", flags |-> status.errors]
    ELSE IF status.status_type # expected_type
    THEN [ok |-> FALSE, kind |-> "UnexpectedStatus",
          expected_type |-> expected_type, expected_phase |-> expected_phase,
          actual_type |-> status.status_type, actual_phase |-> status.phase]
    ELSE [ok |-> TRUE]

\* validate_status looking at the error flags before the media
validate_status_flags_first(status, job_media, expected_type, expected_phase) ==
    IF has_errors(status)
    THEN [ok |-> FALSE, kind |-> "PrinterError", flags |-> status.errors]
    ELSE IF ~status_matches_media(status, job_media)
    THEN [ok |-> FALSE, kind |-> "MediaMismatch", expected_media |-> job_media,
          reported_media |-> likely_match(status)]
    ELSE IF status.status_type # expected_type \/ status.phase # expected_phase
    THEN [ok |-> FALSE, kind |-> "UnexpectedStatus",
          expected_type |-> expected_type, expected_phase |-> expected_phase,
          actual_type |-> status.status_type, actual_phase |-> status.phase]
    ELSE [ok |-> TRUE]

\* validate_status failing only when both the status type and the phase differ
validate_status_both(status, job_media, expected_type, expected_phase) ==
    IF ~status_matches_media(status, job_media)
    THEN [ok |-> FALSE, kind |-> "MediaMismatch", expected_media |-> job_media,
          reported_media |-> likely_match(status)]
    ELSE IF has_errors(status)
    THEN [ok |-> FALSE, kind |-> "PrinterError", flags |-> status.errors]
    ELSE IF status.status_type # expected_type /\ status.phase # expected_phase
    THEN [ok |-> FALSE, kind |-> "UnexpectedStatus",
          expected_type |-> expected_type, expected_phase |-> expected_phase,
          actual_type |-> status.status_type, actual_phase |-> status.phase]
    ELSE [ok |-> TRUE]

validate_status(status, job_media, expected_type, expected_phase) ==
    IF ~status_matches_media(status, job_media)
    THEN [ok |-> FALSE, kind |-> "MediaMismatch", expected_media |-> job_media,
          reported_media |-> likely_match(status)]
    ELSE IF has_errors(status)
    THEN [ok |-> FALSE, kind |-> "PrinterError", flags |-> status.errors]
    ELSE IF status.status_type # expected_type \/ status.phase # expected_phase
    THEN [ok |-> FALSE, kind |-> "UnexpectedStatus",
          expected_type |-> expected_type, expected_phase |-> expected_phase,
          actual_type |-> status.status_type, actual_phase |-> status.phase]
    ELSE [ok |-> TRUE]

\* ------------------------------------------------------------------------
\* commands.rs: From<RasterCommand> for Vec<u8>
\* ------------------------------------------------------------------------
RC_Invalidate == Zeros(400)

RC_StatusInformationRequest == <<27, 105, 83>>

RC_Initialize == <<27, 64>>

\* the margin sent high byte first
RC_SpecifyMarginAmount_high_first(margin_size) ==
    <<27, 105, 100, (margin_size \div 256) % 256, margin_size % 256>>

\* margin_size.to_be_bytes() is [n2, n1]; the low byte n1 is sent first
RC_SpecifyMarginAmount(margin_size) ==
    <<27, 105, 100, margin_size % 256, (margin_size \div 256) % 256>>

RC_SwitchDynamicCommandMode == <<27, 105, 97, 1>>

RC_SwitchAutomaticStatusNotificationMode(notify) ==
    <<27, 105, 33, IF notify THEN 0 ELSE 1>>

RC_RasterGraphicsTransfer(data) == <<103, 0, Len(data) % 256>> \o data

RC_TwoColorRasterGraphicsTransfer(data, color_power) ==
    <<119, IF color_power = "HighEnergy" THEN 1 ELSE 2, Len(data) % 256>> \o data

\* a page ended like the last one
RC_Print_with_feed == <<26>>

RC_Print == <<12>>

RC_PrintWithFeed == <<26>>

RC_SelectCompressionMode(tiff_compression) == <<77, IF tiff_compression THEN 2 ELSE 0>>

\* the page number of CutEach whatever was asked
RC_SpecifyPageNumber_one(cut_every) == <<27, 105, 65, 1>>

RC_SpecifyPageNumber(cut_every) == <<27, 105, 65, cut_every>>

RC_VariousMode(various_mode) == <<27, 105, 77, IF various_mode.auto_cut THEN 64 ELSE 0>>

\* ExpandedMode that leaves bit 0 clear
RC_ExpandedMode_no_color(two_color, cut_at_end, high_dpi) ==
    <<27, 105, 75, (IF cut_at_end THEN 8 ELSE 0) + (IF high_dpi THEN 64 ELSE 0)>>

RC_ExpandedMode(two_color, cut_at_end, high_dpi) ==
    <<27, 105, 75, (IF two_color THEN 1 ELSE 0) + (IF cut_at_end THEN 8 ELSE 0)
                   + (IF high_dpi THEN 64 ELSE 0)>>

\* PrintInformation that leaves bit 7 of the valid flag clear
RC_PrintInformation_no_recovery(media, quality_priority, recovery_on, no_lines, first_page) ==
    LET fixed == length_mm(media) # None
        valid_flag == 6 + (IF fixed THEN 8 ELSE 0) + (IF quality_priority THEN 64 ELSE 0)
        media_type == IF fixed THEN 11 ELSE 10
        media_length == IF fixed THEN length_mm(media)[1] ELSE 0
    IN  <<27, 105, 122, valid_flag, media_type, width_mm(media), media_length,
          no_lines % 256, (no_lines \div 256) % 256, (no_lines \div 65536) % 256,
          (no_lines \div 16777216) % 256, IF first_page THEN 0 ELSE 1, 0>>

\* PrintInformation with the line count sent most significant byte first
RC_PrintInformation_count_high_first(media, quality_priority, recovery_on, no_lines, first_page) ==
    LET fixed == length_mm(media) # None
        valid_flag == 6 + (IF fixed THEN 8 ELSE 0) + (IF quality_priority THEN 64 ELSE 0)
                        + (IF recovery_on THEN 128 ELSE 0)
        media_type == IF fixed THEN 11 ELSE 10
        media_length == IF fixed THEN length_mm(media)[1] ELSE 0
    IN  <<27, 105, 122, valid_flag, media_type, width_mm(media), media_length,
          (no_lines \div 16777216) % 256, (no_lines \div 65536) % 256,
          (no_lines \div 256) % 256, no_lines % 256, IF first_page THEN 0 ELSE 1, 0>>

\* no_lines.to_be_bytes() is [n8, n7, n6, n5]; the bytes are sent n5 first
RC_PrintInformation(media, quality_priority, recovery_on, no_lines, first_page) ==
    LET fixed == length_mm(media) # None
        valid_flag == 6 + (IF fixed THEN 8 ELSE 0) + (IF quality_priority THEN 64 ELSE 0)
                        + (IF recovery_on THEN 128 ELSE 0)
        media_type == IF fixed THEN 11 ELSE 10
        media_length == IF fixed THEN length_mm(media)[1] ELSE 0
        n5 == no_lines % 256
        n6 == (no_lines \div 256) % 256
        n7 == (no_lines \div 65536) % 256
        n8 == (no_lines \div 16777216) % 256
    IN  <<27, 105, 122, valid_flag, media_type, width_mm(media), media_length,
          n5, n6, n7, n8, IF first_page THEN 0 ELSE 1, 0>>

\* RasterCommands::create_preamble, as the list of encoded commands
create_preamble == << RC_Invalidate, RC_Initialize >>

\* RasterCommands::build
build(commands) == Concat(commands)

\* ------------------------------------------------------------------------
\* printjob/job.rs: the print job and its lowering
\* ------------------------------------------------------------------------
NoCut == [kind |-> "None", n |-> 0]

CutEach == [kind |-> "CutEach", n |-> 0]

CutEvery(n) == [kind |-> "CutEvery", n |-> n]

CutAtEnd == [kind |-> "CutAtEnd", n |-> 0]

Monochrome(black) == [kind |-> "Monochrome", black_layer |-> black, red_layer |-> << >>]

TwoColor(black, red) == [kind |-> "TwoColor", black_layer |-> black, red_layer |-> red]

\* the lines of both layers counted together
height_of_both_layers(raster_image) ==
    Len(raster_image.black_layer)
    + (IF raster_image.kind = "TwoColor" THEN Len(raster_image.red_layer) ELSE 0)

\* RasterImage::height
height(raster_image) == Len(raster_image.black_layer)

\* the page count taken as the number of images, whatever the copies
page_count_images_only(job) == Len(job.raster_images)

\* PrintJob::page_count
page_count(job) == job.no_copies * Len(job.raster_images)

\* u8::is_multiple_of: a zero divisor divides only zero
is_multiple_of(a, b) == IF b = 0 THEN a = 0 ELSE a % b = 0

\* the two transfers of each row with the red line sent first
TwoColorTransfers_red_first(black, red) ==
    [t \in 1..(2 * Min(Len(black), Len(red))) |->
        IF t % 2 = 1 THEN <<119, 2, Len(red[(t + 1) \div 2])>> \o red[(t + 1) \div 2]
        ELSE <<119, 1, Len(black[t \div 2])>> \o black[t \div 2]]

\* black_layer.iter().zip(red_layer.iter()): pairs up to the shorter layer
RECURSIVE TwoColorTransfers(_, _)
TwoColorTransfers(black, red) ==
    IF black = << >> \/ red = << >> THEN << >>
    ELSE << RC_TwoColorRasterGraphicsTransfer(Head(black), "HighEnergy"),
            RC_TwoColorRasterGraphicsTransfer(Head(red), "LowEnergy") >>
         \o TwoColorTransfers(Tail(black), Tail(red))

\* every image sent as one monochrome transfer per line of its black layer
DataTransfers_monochrome(raster_image) ==
    [i \in 1..Len(raster_image.black_layer) |->
        RC_RasterGraphicsTransfer(raster_image.black_layer[i])]

DataTransfers(raster_image) ==
    IF raster_image.kind = "Monochrome"
    THEN [i \in 1..Len(raster_image.black_layer) |->
              RC_RasterGraphicsTransfer(raster_image.black_layer[i])]
    ELSE TwoColorTransfers(raster_image.black_layer, raster_image.red_layer)

\* the body of the two nested loops of into_parts for one (copy_no, img_idx),
\* as the list of encoded commands of the page
PageCommands(job, copy_no, img_idx) ==
    LET raster_image == job.raster_images[img_idx + 1]
        page_no == copy_no * Len(job.raster_images) + img_idx
        cb == job.cut_behavior
    IN  << RC_SwitchDynamicCommandMode,
           RC_SwitchAutomaticStatusNotificationMode(TRUE),
           RC_PrintInformation(job.media,
               IF raster_image.kind = "Monochrome" THEN job.quality_priority ELSE FALSE,
               TRUE, height(raster_image), page_no = 0),
           RC_VariousMode([auto_cut |-> cb # NoCut]) >>
        \o (IF cb.kind = "CutEvery" THEN << RC_SpecifyPageNumber(cb.n) >>
            ELSE IF cb.kind = "CutEach" THEN << RC_SpecifyPageNumber(1) >>
            ELSE << >>)
        \o << RC_ExpandedMode(supports_color(job.media),
                  IF cb.kind = "CutAtEnd" THEN TRUE
                  ELSE IF cb.kind = "CutEvery" THEN ~is_multiple_of(job.no_copies, cb.n)
                  ELSE FALSE,
                  job.high_dpi),
              RC_SpecifyMarginAmount(IF label_type(job.media) = "Continuous" THEN 35 ELSE 0),
              RC_SelectCompressionMode(FALSE) >>
        \o DataTransfers(raster_image)
        \o << IF page_no = page_count(job) - 1 THEN RC_PrintWithFeed ELSE RC_Print >>

\* into_parts with the loop over the images outermost
into_parts_images_outermost(job) ==
    [preamble |-> create_preamble,
     page_data |-> [p \in 1..page_count(job) |->
                      PageCommands(job, (p - 1) % job.no_copies,
                                        (p - 1) \div job.no_copies)]]

\* PrintJob::into_parts: the preamble and one command list per page, copies
\* outermost
into_parts(job) ==
    [preamble |-> create_preamble,
     page_data |-> [p \in 1..page_count(job) |->
                      PageCommands(job, (p - 1) \div Len(job.raster_images),
                                        (p - 1) % Len(job.raster_images))]]

\* compile with the pages appended last page first
compile_last_page_first(job) ==
    build(into_parts(job).preamble)
    \o Concat([p \in 1..page_count(job) |->
                  build(into_parts(job).page_data[page_count(job) + 1 - p])])

\* PrintJob::compile
compile(job) ==
    build(into_parts(job).preamble)
    \o Concat([p \in 1..page_count(job) |-> build(into_parts(job).page_data[p])])

\* ------------------------------------------------------------------------
\* raster_image.rs: from an image to raster layers
\* ------------------------------------------------------------------------
\* A DynamicImage: its dimensions and the pixels that are not white, each
\* with its position (x from the left, y from the top) and its RGB value.
Image(w, h, dots) == [width |-> w, height |-> h, dots |-> dots]

Dot(x, y, r, g, b) == [x |-> x, y |-> y, r |-> r, g |-> g, b |-> b]

\* the three print predicates of RasterImage::new
PrintsBlackOfTwo(r, g, b) == r = g /\ r = b /\ r < 200

PrintsRed(r, g, b) == r > 100 /\ r > b /\ r > g

PrintsMonochrome(r, g, b) == ~(r = b /\ r = g /\ r = 255)

print_predicate(name, r, g, b) ==
    CASE name = "black_of_two" -> PrintsBlackOfTwo(r, g, b)
      [] name = "red" -> PrintsRed(r, g, b)
      [] name = "monochrome" -> PrintsMonochrome(r, g, b)

\* imageops::grayscale of an RGB pixel
Luma(r, g, b) == (2126 * r + 7152 * g + 722 * b) \div 10000

\* create_mask placing the image at the left margin of the line
create_mask_at_left_margin(img, left_margin_dots, predicate) ==
    [height |-> img.height,
     zero |-> { <<d.x + left_margin_dots, d.y>> :
                  d \in { e \in img.dots : /\ print_predicate(predicate, e.r, e.g, e.b)
                                            /\ Luma(e.r, e.g, e.b) < 128 } }]

\* create_mask: pixels failing the predicate turn white, the rest go through
\* grayscale and the bi-level dither (0 and 255 pass it unchanged), and the
\* w columns are placed at right_margin = 720 - left_margin - w of a 720-wide
\* white line.  The mask is given by its height and its zero pixels.
create_mask(img, left_margin_dots, predicate) ==
    LET right_margin == 720 - left_margin_dots - img.width IN
    [height |-> img.height,
     zero |-> { <<d.x + right_margin, d.y>> :
                  d \in { e \in img.dots : /\ print_predicate(predicate, e.r, e.g, e.b)
                                            /\ Luma(e.r, e.g, e.b) < 128 } }]

\* one raster line: 90 bytes, pixel 8j+i of the line in bit 7-i of byte j,
\* a bit set where the mask is zero
raster_line(mask, y) ==
    IF \A z \in mask.zero : z[2] # y THEN Zeros(90)
    ELSE [j \in 1..90 |->
             LET bit(i) == IF <<8 * (j - 1) + i, y>> \in mask.zero THEN 2 ^ (7 - i) ELSE 0
             IN  bit(0) + bit(1) + bit(2) + bit(3) + bit(4) + bit(5) + bit(6) + bit(7)]

\* the lines of the mask from the top, without the reversal
mask_to_raster_layer_top_first(mask) ==
    [i \in 1..mask.height |-> raster_line(mask, i - 1)]

\* mask_to_raster_layer: one line per mask row, then res.reverse()
mask_to_raster_layer(mask) ==
    [i \in 1..mask.height |-> raster_line(mask, mask.height - i)]

DimensionMismatch(expected_width, actual_width, expected_height, actual_height) ==
    [ok |-> FALSE, kind |-> "DimensionMismatch",
     expected_width |-> expected_width, actual_width |-> actual_width,
     expected_height |-> expected_height, actual_height |-> actual_height]

\* RasterImage::new checking the width only
RasterImage_new_width_only(img, media) ==
    IF width_dots(media) # img.width
    THEN DimensionMismatch(width_dots(media), img.width, None, img.height)
    ELSE [ok |-> TRUE,
          image |-> IF supports_color(media)
                    THEN TwoColor(
                        mask_to_raster_layer(
                            create_mask(img, left_margin(media), "black_of_two")),
                        mask_to_raster_layer(create_mask(img, left_margin(media), "red")))
                    ELSE Monochrome(
                        mask_to_raster_layer(
                            create_mask(img, left_margin(media), "monochrome")))]

\* RasterImage::new
RasterImage_new(img, media) ==
    IF width_dots(media) # img.width
    THEN DimensionMismatch(width_dots(media), img.width, None, img.height)
    ELSE IF length_dots(media) # None /\ length_dots(media)[1] # img.height
    THEN DimensionMismatch(width_dots(media), img.width, length_dots(media), img.height)
    ELSE [ok |-> TRUE,
          image |-> IF supports_color(media)
                    THEN TwoColor(
                        mask_to_raster_layer(
                            create_mask(img, left_margin(media), "black_of_two")),
                        mask_to_raster_layer(create_mask(img, left_margin(media), "red")))
                    ELSE Monochrome(
                        mask_to_raster_layer(
                            create_mask(img, left_margin(media), "monochrome")))]

\* the cut behaviour a job or a builder starts with
default_cut_behavior(media) ==
    IF label_type(media) = "Continuous" THEN CutEach ELSE CutAtEnd

\* PrintJob::from_images: collect() stops at the first image that is refused
PrintJob_from_images(images, media) ==
    LET raster == [i \in 1..Len(images) |-> RasterImage_new(images[i], media)]
        bad == { i \in 1..Len(images) : ~raster[i].ok }
    IN  IF bad # {}
        THEN [ok |-> FALSE, err |-> raster[CHOOSE i \in bad : \A j \in bad : i <= j]]
        ELSE [ok |-> TRUE,
              job |-> [no_copies |-> 1,
                       raster_images |-> [i \in 1..Len(images) |-> raster[i].image],
                       media |-> media, high_dpi |-> FALSE, compressed |-> FALSE,
                       quality_priority |-> TRUE,
                       cut_behavior |-> default_cut_behavior(media)]]

\* ------------------------------------------------------------------------
\* printjob/printjob_builder.rs
\* ------------------------------------------------------------------------
\* PrintJobBuilder::new
PrintJobBuilder_new(media) ==
    [images |-> << >>, media |-> media, no_copies |-> 1, high_dpi |-> FALSE,
     compressed |-> FALSE, quality_priority |-> TRUE,
     cut_behavior |-> default_cut_behavior(media)]

\* PrintJobBuilder<NoImages>::add_label: the image is pushed, the other
\* fields are copied, and cut_behavior is set anew from the media
add_label_first(builder, img) ==
    [images |-> Append(builder.images, img), media |-> builder.media,
     no_copies |-> builder.no_copies, high_dpi |-> builder.high_dpi,
     compressed |-> builder.compressed, quality_priority |-> builder.quality_priority,
     cut_behavior |-> default_cut_behavior(builder.media)]

\* PrintJobBuilder<HasImages>::add_label
add_label(builder, img) == [builder EXCEPT !.images = Append(@, img)]

\* add_labels of either state
add_labels(builder, imgs) == [builder EXCEPT !.images = @ \o imgs]

\* PrintJobBuilder<HasImages>::build
PrintJobBuilder_build(builder) == PrintJob_from_images(builder.images, builder.media)

\* ------------------------------------------------------------------------
\* The printer side of the transport: the bytes a reply may carry.  A frame
\* is assembled from the fields at offsets 0..15 and those at offsets 16..31;
\* offsets 6 and 14 carry the values observed on real units.
\* ------------------------------------------------------------------------
FirstPart(head, model, err_lo, err_hi, width, mtype, mode) ==
    <<head, 32, 66, 52, model, 48, 4, 0, err_lo, err_hi, width, mtype, 0, 0, 21, mode>>

SecondPart(length, stype, phase0, notif) ==
    <<0, length, stype, phase0, 0, 0, notif, 0, 0>> \o Zeros(7)

\* (media type byte, width in mm) pairs the printer reports during a session
ReplyMedia == { <<10, 62>>, <<11, 17>> }

\* (low, high) error bytes during a session: none, NoMedia
ReplyErrors == { <<0, 0>>, <<1, 0>> }

FirstParts ==
    { FirstPart(128, 65, e[1], e[2], m[2], m[1], 0) : e \in ReplyErrors, m \in ReplyMedia }
    \cup { FirstPart(0, 65, 0, 0, 62, 10, 0) }     \* wrong print head mark

SecondParts ==
    { SecondPart(l, t, p, 0) : l \in {0, 54}, t \in {0, 1, 6}, p \in {0, 1} }
    \cup { SecondPart(0, 3, 0, 0) }                \* invalid status type

Frames == { a \o b : a \in FirstParts, b \in SecondParts }

\* Replies offered to the decoder and to validate_status on their own: the
\* (type, width, length) triple of every catalogue entry and some that no
\* entry has, with and without error flags, in every expected type and phase.
MediaTriple(m) ==
    <<IF label_type(m) = "Continuous" THEN 10 ELSE 11, width_mm(m),
      IF length_mm(m) = None THEN 0 ELSE length_mm(m)[1]>>

OddTriples ==
    { <<0, 0, 0>>, <<0, 62, 0>>, <<10, 17, 0>>, <<10, 62, 29>>, <<11, 62, 0>>,
      <<11, 17, 55>> }

CheckTriples == { MediaTriple(m) : m \in Media } \cup OddTriples

\* (low, high) error bytes: none, NoMedia, NoMedia with CoverOpen, reserved bit 3
CheckErrors == { <<0, 0>>, <<1, 0>>, <<1, 16>>, <<8, 0>> }

CheckFrames ==
    { FirstPart(128, 65, e[1], e[2], t[2], t[1], 0) \o SecondPart(t[3], ty, ph, 0) :
        t \in CheckTriples, e \in CheckErrors, ty \in {0, 1, 2, 6}, ph \in {0, 1} }
    \cup { FirstPart(128, 53, 0, 0, 62, 10, 64) \o SecondPart(0, 2, 1, 3),
           FirstPart(128, 0, 0, 0, 62, 10, 0) \o SecondPart(0, 0, 0, 0),
           FirstPart(128, 65, 0, 0, 62, 74, 0) \o SecondPart(0, 0, 0, 0),
           FirstPart(128, 65, 0, 0, 62, 10, 0) \o SecondPart(0, 0, 2, 0),
           FirstPart(128, 65, 0, 0, 62, 10, 0) \o SecondPart(0, 0, 0, 9) }

\* ------------------------------------------------------------------------
\* Jobs handed to print(): built jobs with default settings (from_images)
\* ------------------------------------------------------------------------
JobMedia == { "C62R", "D17x54" }

RasterLine(i) == <<0, 0, i>> \o Zeros(87)

\* RasterImage::new: two layers iff the media supports colour
SessionImage(media, i) ==
    IF supports_color(media) THEN TwoColor(<< RasterLine(i) >>, << RasterLine(128 + i) >>)
    ELSE Monochrome(<< RasterLine(i) >>)

\* PrintJob::from_images defaults, with the copy count a builder may set
SessionJob(media, copies, nimages) ==
    [no_copies |-> copies,
     raster_images |-> [i \in 1..nimages |-> SessionImage(media, i)],
     media |-> media, high_dpi |-> FALSE, compressed |-> FALSE,
     quality_priority |-> TRUE,
     cut_behavior |-> IF label_type(media) = "Continuous" THEN CutEach ELSE CutAtEnd]

SessionJobs ==
    { SessionJob(m, c, n) : m \in JobMedia, c \in 0..MaxCopies, n \in 0..MaxImages }

\* ------------------------------------------------------------------------
\* printer_connection.rs: the session over the transport
\* ------------------------------------------------------------------------
VARIABLES
    op,           \* the call in progress: "none", "print" or "get_status"
    job,          \* Some(job) while print() runs
    pc,           \* position inside the call
    page_idx,     \* page_no of the enumerate() loop of print()
    step,         \* 0: reply to the status request; 1..3: replies of a page
    buffer,       \* read_buffer of read_status_reply
    total_read,   \* read_exact
    retries,      \* read_exact
    status,       \* Some(StatusInformation) once parsed
    result,       \* Some(return value) once the call has returned
    events,       \* history: transport writes, status reads, validations
    empty_run,    \* history: consecutive Ok(0) reads of the current read_exact
    arrived,      \* history: the bytes the reads of the current read_exact returned
    in_reply,     \* a reply handed to the decoder on its own
    in_media,     \* the job media it is validated against
    out_status,   \* Some(result of StatusInformation::try_from)
    out_verdict,  \* Some(expected step, result of validate_status)
    jpc,          \* where the making of a job stands
    bld,          \* Some(PrintJobBuilder)
    asked,        \* history: the last value given to each setter of the builder
    given,        \* history: how the job was asked for, its media and its images
    built,        \* Some(result of build() or from_images())
    pjob,         \* Some(PrintJob) about to be lowered
    parts,        \* Some(result of into_parts)
    out_bytes,    \* Some(result of compile)
    cmd,          \* Some(a PrintInformation command and its encoding)
    rast          \* Some(an image, its mask and the raster layer of the mask)

svars == <<op, job, pc, page_idx, step, buffer, total_read, retries, status, result,
           events, empty_run, arrived>>

vvars == <<in_reply, in_media, out_status, out_verdict>>

jvars == <<jpc, bld, asked, given, built, pjob, parts, out_bytes, cmd, rast>>

vars == <<svars, vvars, jvars>>

\* const MAX_RETRIES: u8 = 60
MAX_RETRIES == 60

\* let mut read_buffer = [0u8; 32]
StatusLen == 32

\* history records: what was passed to write() and what the device reported,
\* each status read with the reply it produced, each validation with the
\* reply it looked at
WriteEv(what, k, data, bytes_written, err) ==
    [e |-> "write", what |-> what, k |-> k, len |-> Len(data), n |-> bytes_written,
     r |-> err, head |-> SubSeq(data, 1, Min(3, Len(data))),
     tail |-> SubSeq(data, Len(data) - Min(2, Len(data)) + 1, Len(data)), reply |-> None,
     data |-> data]

ReadEv(outcome, reply) ==
    [e |-> "status_read", what |-> outcome, k |-> 0, len |-> 0, n |-> 0, r |-> "none",
     head |-> << >>, tail |-> << >>, reply |-> reply, data |-> << >>]

ValidateEv(expected_type, expected_phase, ok, reply) ==
    [e |-> "validate", what |-> expected_type, k |-> 0, len |-> 0,
     n |-> IF ok THEN 1 ELSE 0, r |-> expected_phase, head |-> << >>, tail |-> << >>,
     reply |-> reply, data |-> << >>]

\* what the device may report for a write of len bytes: -1 stands for an
\* error of the underlying call, otherwise the number of bytes it accepted
BytesWritten(len) == { -1, 0, len - 1, len }

\* ConnectionImpl::write of KernelConnection / UsbConnection
\* write that takes any byte count the device reports for success
write_any_count(data, bytes_written) ==
    IF bytes_written = -1 THEN [ok |-> FALSE, err |-> "IO"]
    ELSE [ok |-> TRUE, err |-> "none"]

\* write that reports success whatever the device reported
write_swallowing_errors(data, bytes_written) ==
    [ok |-> TRUE,
     err |-> IF bytes_written = -1 THEN "IO"
             ELSE IF bytes_written # Len(data) THEN "IncompleteWrite" ELSE "none"]

write(data, bytes_written) ==
    IF bytes_written = -1 THEN [ok |-> FALSE, err |-> "IO"]
    ELSE IF bytes_written # Len(data) THEN [ok |-> FALSE, err |-> "IncompleteWrite"]
    ELSE [ok |-> TRUE, err |-> "none"]

\* the three status errors
StatusError_Connection(e) == [kind |-> "Connection", err |-> e, reason |-> "none"]

StatusError_NoResponse == [kind |-> "NoResponse", err |-> "none", reason |-> "none"]

StatusError_Parsing(reason) == [kind |-> "Parsing", err |-> "none", reason |-> reason]

\* PrintError::with_page / err_source_mapper: page_no and source, nothing else
PrintError(source_kind, source, page_no) ==
    [ok |-> FALSE, page_no |-> page_no, source |-> [kind |-> source_kind, err |-> source]]

\* the page number left zero-based
current_page_zero_based(page_no) == page_no

\* let current_page = (page_no + 1) as u32; a page number is far below 2^32,
\* so the cast never truncates
current_page(page_no) == page_no + 1

\* Expected with the second and third expectation of a page exchanged
Expected_swapped(s) ==
    CASE s = 0 -> <<"StatusRequestReply", "Receiving">>
      [] s = 1 -> <<"PhaseChange", "Printing">>
      [] s = 2 -> <<"PhaseChange", "Receiving">>
      [] s = 3 -> <<"PrintingCompleted", "Printing">>

\* the (status type, phase) print() waits for at each status read
Expected(s) ==
    CASE s = 0 -> <<"StatusRequestReply", "Receiving">>
      [] s = 1 -> <<"PhaseChange", "Printing">>
      [] s = 2 -> <<"PrintingCompleted", "Printing">>
      [] s = 3 -> <<"PhaseChange", "Receiving">>

\* the page number an error is tagged with: 0 before the loop, current_page in it
ErrPage == IF step = 0 THEN 0 ELSE current_page(page_idx)

\* how a StatusError leaves the call in progress
StatusFailure(err) ==
    IF op = "get_status" THEN [ok |-> FALSE, err |-> err]
    ELSE PrintError("Status", err, ErrPage)

Return(res) ==
    /\ pc' = "done"
    /\ result' = Some(res)

\* nothing of a job exists yet
NoAsked ==
    [calls |-> 0, no_copies |-> None, high_dpi |-> None, compressed |-> None,
     quality_priority |-> None, cut_behavior |-> None]

NoJob ==
    /\ jpc = "idle"
    /\ bld = None
    /\ asked = NoAsked
    /\ given = None
    /\ built = None
    /\ pjob = None
    /\ parts = None
    /\ out_bytes = None
    /\ cmd = None
    /\ rast = None

Init ==
    /\ op = "none"
    /\ job = None
    /\ pc = "idle"
    /\ page_idx = 0
    /\ step = 0
    /\ buffer = << >>
    /\ total_read = 0
    /\ retries = 0
    /\ status = None
    /\ result = None
    /\ events = << >>
    /\ empty_run = 0
    /\ arrived = << >>
    /\ in_reply = << >>
    /\ in_media = "C62"
    /\ out_status = None
    /\ out_verdict = None
    /\ NoJob

\* the caller starts print(job): job.into_parts() is taken, nothing is sent yet
CallPrint ==
    /\ pc = "idle"
    /\ \E j \in SessionJobs : job' = Some(j)
    /\ op' = "print"
    /\ pc' = "print_preamble"
    /\ UNCHANGED <<page_idx, step, buffer, total_read, retries, status, result, events,
                   empty_run, arrived>>
    /\ UNCHANGED vvars
    /\ UNCHANGED jvars

\* the caller starts get_status()
CallGetStatus ==
    /\ pc = "idle"
    /\ op' = "get_status"
    /\ pc' = "gs_preamble"
    /\ UNCHANGED <<job, page_idx, step, buffer, total_read, retries, status, result, events,
                   empty_run, arrived>>
    /\ UNCHANGED vvars
    /\ UNCHANGED jvars

\* print(): self.write(&parts.preamble.build()).map_err(err_source_mapper(0))?
PrintWritePreamble ==
    /\ pc = "print_preamble"
    /\ LET data == build(into_parts(job[1]).preamble) IN
       \E bw \in BytesWritten(Len(data)) :
          LET w == write(data, bw) IN
          /\ events' = Append(events, WriteEv("preamble", 0, data, bw, w.err))
          /\ IF w.ok THEN pc' = "gs_preamble" /\ UNCHANGED result
             ELSE Return(PrintError("Connection", w.err, 0))
    /\ UNCHANGED <<op, job, page_idx, step, buffer, total_read, retries, status, empty_run, arrived>>
    /\ UNCHANGED vvars
    /\ UNCHANGED jvars

\* get_status(): self.write(&RasterCommands::create_preamble().build())?
GetStatusWritePreamble ==
    /\ pc = "gs_preamble"
    /\ LET data == build(create_preamble) IN
       \E bw \in BytesWritten(Len(data)) :
          LET w == write(data, bw) IN
          /\ events' = Append(events, WriteEv("preamble", 0, data, bw, w.err))
          /\ IF w.ok THEN pc' = "gs_request" /\ UNCHANGED result
             ELSE Return(StatusFailure(StatusError_Connection(w.err)))
    /\ UNCHANGED <<op, job, page_idx, step, buffer, total_read, retries, status, empty_run, arrived>>
    /\ UNCHANGED vvars
    /\ UNCHANGED jvars

\* get_status(): self.send_status_request()?; then read_status_reply begins
\* with a zeroed read_buffer
SendStatusRequest ==
    /\ pc = "gs_request"
    /\ LET data == RC_StatusInformationRequest IN
       \E bw \in BytesWritten(Len(data)) :
          LET w == write(data, bw) IN
          /\ events' = Append(events, WriteEv("status_request", 0, data, bw, w.err))
          /\ IF w.ok
             THEN /\ pc' = "read"
                  /\ buffer' = Zeros(StatusLen)
                  /\ UNCHANGED result
             ELSE /\ Return(StatusFailure(StatusError_Connection(w.err)))
                  /\ UNCHANGED buffer
    /\ total_read' = 0
    /\ retries' = 0
    /\ empty_run' = 0
    /\ arrived' = << >>
    /\ UNCHANGED <<op, job, page_idx, step, status>>
    /\ UNCHANGED vvars
    /\ UNCHANGED jvars

\* read_status_reply starts: a zeroed read_buffer and the locals of read_exact
BeginStatusRead ==
    /\ pc' = "read"
    /\ buffer' = Zeros(StatusLen)
    /\ total_read' = 0
    /\ retries' = 0
    /\ empty_run' = 0
    /\ arrived' = << >>

\* the loop body of read_exact without "retries = 0" after a read with data
read_exact_step_no_reset(tr, rt, len, n) ==
    IF n = 0
    THEN [total_read |-> tr, retries |-> rt + 1,
          ret |-> IF rt + 1 > MAX_RETRIES THEN "NoResponse" ELSE "continue"]
    ELSE [total_read |-> tr + n, retries |-> rt,
          ret |-> IF tr + n < len THEN "continue" ELSE "Ok"]

\* the loop body of read_exact giving up one empty read later
read_exact_step_one_more_retry(tr, rt, len, n) ==
    IF n = 0
    THEN [total_read |-> tr, retries |-> rt + 1,
          ret |-> IF rt + 1 > MAX_RETRIES + 1 THEN "NoResponse" ELSE "continue"]
    ELSE [total_read |-> tr + n, retries |-> 0,
          ret |-> IF tr + n < len THEN "continue" ELSE "Ok"]

\* one iteration of the loop of read_exact for a read that returned Ok(n):
\* the new locals and whether the function returns ("NoResponse", "Ok") or
\* loops ("continue")
read_exact_step(tr, rt, len, n) ==
    IF n = 0
    THEN [total_read |-> tr, retries |-> rt + 1,
          ret |-> IF rt + 1 > MAX_RETRIES THEN "NoResponse" ELSE "continue"]
    ELSE [total_read |-> tr + n, retries |-> 0,
          ret |-> IF tr + n < len THEN "continue" ELSE "Ok"]

\* read_exact, Ok(0): count the retry, give up above MAX_RETRIES, else sleep
ReadEmpty ==
    /\ pc = "read"
    /\ total_read < Len(buffer)
    /\ LET it == read_exact_step(total_read, retries, Len(buffer), 0) IN
       /\ retries' = it.retries
       /\ total_read' = it.total_read
       /\ IF it.ret = "NoResponse"
          THEN /\ Return(StatusFailure(StatusError_NoResponse))
               /\ events' = Append(events, ReadEv("NoResponse", None))
          ELSE UNCHANGED <<pc, result, events>>
    /\ empty_run' = empty_run + 1
    /\ UNCHANGED <<op, job, page_idx, step, buffer, status, arrived>>
    /\ UNCHANGED vvars
    /\ UNCHANGED jvars

\* the byte runs the transport may deliver into buffer[total_read..]
Chunks(from, n) == { SubSeq(f, from + 1, from + n) : f \in Frames }

\* read_exact, Ok(n) with n > 0: the bytes land at buffer[total_read..], the
\* retry count restarts, and the loop ends once the buffer is full
ReadData ==
    /\ pc = "read"
    /\ total_read < Len(buffer)
    /\ \E n \in { Min(ChunkLen, Len(buffer) - total_read), Len(buffer) - total_read } :
       \E chunk \in Chunks(total_read, n) :
          LET it == read_exact_step(total_read, retries, Len(buffer), n) IN
          /\ buffer' = [i \in 1..Len(buffer) |->
                           IF i > total_read /\ i <= total_read + n
                           THEN chunk[i - total_read] ELSE buffer[i]]
          /\ total_read' = it.total_read
          /\ retries' = it.retries
          /\ pc' = IF it.ret = "Ok" THEN "parse" ELSE "read"
          /\ arrived' = arrived \o chunk
    /\ empty_run' = 0
    /\ UNCHANGED <<op, job, page_idx, step, status, result, events>>
    /\ UNCHANGED vvars
    /\ UNCHANGED jvars

\* read_exact, Err(e): the transport error leaves as StatusError::Connection
ReadFail ==
    /\ pc = "read"
    /\ total_read < Len(buffer)
    /\ Return(StatusFailure(StatusError_Connection("IO")))
    /\ events' = Append(events, ReadEv("IO", None))
    /\ UNCHANGED <<op, job, page_idx, step, buffer, total_read, retries, status, empty_run, arrived>>
    /\ UNCHANGED vvars
    /\ UNCHANGED jvars

\* ParseStatus with get_status() refusing a reply that has error flags
ParseStatus_refusing_errors ==
    /\ pc = "parse"
    /\ LET parsed == StatusInformation_try_from(buffer) IN
       IF parsed.ok /\ ~(op = "get_status" /\ has_errors(parsed))
       THEN /\ status' = Some(parsed)
            /\ events' = Append(events, ReadEv("Ok", Some(parsed)))
            /\ IF op = "get_status"
               THEN Return([ok |-> TRUE, status |-> parsed])
               ELSE pc' = "validate" /\ UNCHANGED result
       ELSE /\ Return(StatusFailure(StatusError_Parsing("refused")))
            /\ events' = Append(events, ReadEv("Parsing", None))
            /\ UNCHANGED status
    /\ UNCHANGED <<op, job, page_idx, step, buffer, total_read, retries, empty_run, arrived>>
    /\ UNCHANGED vvars
    /\ UNCHANGED jvars

\* read_status_reply after read_exact: StatusInformation::try_from(&read_buffer[..]);
\* get_status() returns the reply as it is, print() goes on to validate it
ParseStatus ==
    /\ pc = "parse"
    /\ LET parsed == StatusInformation_try_from(buffer) IN
       IF parsed.ok
       THEN /\ status' = Some(parsed)
            /\ events' = Append(events, ReadEv("Ok", Some(parsed)))
            /\ IF op = "get_status"
               THEN Return([ok |-> TRUE, status |-> parsed])
               ELSE pc' = "validate" /\ UNCHANGED result
       ELSE /\ Return(StatusFailure(StatusError_Parsing(parsed.reason)))
            /\ events' = Append(events, ReadEv("Parsing", None))
            /\ UNCHANGED status
    /\ UNCHANGED <<op, job, page_idx, step, buffer, total_read, retries, empty_run, arrived>>
    /\ UNCHANGED vvars
    /\ UNCHANGED jvars

\* print(): Self::validate_status(&status, expected_media, type, phase) and what
\* follows it: the next status read of the page, the next page, or Ok(())
ValidateStatus ==
    /\ pc = "validate"
    /\ LET v == validate_status(status[1], job[1].media, Expected(step)[1], Expected(step)[2])
           no_pages == Len(into_parts(job[1]).page_data)
       IN
       /\ events' = Append(events, ValidateEv(Expected(step)[1], Expected(step)[2],
                                              v.ok, status))
       /\ IF ~v.ok
          THEN /\ Return(PrintError("Protocol", v, ErrPage))
               /\ UNCHANGED <<page_idx, step, buffer, total_read, retries, empty_run, arrived>>
          ELSE IF step = 0
          THEN /\ IF no_pages = 0 THEN Return([ok |-> TRUE])
                  ELSE pc' = "page_write" /\ UNCHANGED result
               /\ page_idx' = 0
               /\ UNCHANGED <<step, buffer, total_read, retries, empty_run, arrived>>
          ELSE IF step < 3
          THEN /\ step' = step + 1
               /\ BeginStatusRead
               /\ UNCHANGED <<page_idx, result>>
          ELSE IF page_idx + 1 < no_pages
          THEN /\ page_idx' = page_idx + 1
               /\ pc' = "page_write"
               /\ UNCHANGED <<step, buffer, total_read, retries, empty_run, arrived, result>>
          ELSE /\ Return([ok |-> TRUE])
               /\ UNCHANGED <<page_idx, step, buffer, total_read, retries, empty_run, arrived>>
    /\ UNCHANGED <<op, job, status>>
    /\ UNCHANGED vvars
    /\ UNCHANGED jvars

\* print(), inside the page closure: self.write(&page.build())?
WritePage ==
    /\ pc = "page_write"
    /\ LET data == build(into_parts(job[1]).page_data[page_idx + 1]) IN
       \E bw \in BytesWritten(Len(data)) :
          LET w == write(data, bw) IN
          /\ events' = Append(events, WriteEv("page", page_idx, data, bw, w.err))
          /\ IF w.ok
             THEN /\ step' = 1
                  /\ BeginStatusRead
                  /\ UNCHANGED result
             ELSE /\ Return(PrintError("Connection", w.err, current_page(page_idx)))
                  /\ UNCHANGED <<step, buffer, total_read, retries, empty_run, arrived>>
    /\ UNCHANGED <<op, job, page_idx, status>>
    /\ UNCHANGED vvars
    /\ UNCHANGED jvars

Next ==
    \/ CallPrint
    \/ CallGetStatus
    \/ PrintWritePreamble
    \/ GetStatusWritePreamble
    \/ SendStatusRequest
    \/ ReadEmpty
    \/ ReadData
    \/ ReadFail
    \/ ParseStatus
    \/ ValidateStatus
    \/ WritePage

Spec == Init /\ [][Next]_vars

\* the jobs printed where termination is examined: one without pages and one
\* of two pages
LiveJobs == { SessionJob("C62R", 0, 1), SessionJob("C62R", 2, 1) }

\* the caller starts print(job) with one of these jobs
CallPrintLive ==
    /\ CallPrint
    /\ job' \in { Some(j) : j \in LiveJobs }

NextLive ==
    \/ CallPrintLive
    \/ CallGetStatus
    \/ PrintWritePreamble
    \/ GetStatusWritePreamble
    \/ SendStatusRequest
    \/ ReadEmpty
    \/ ReadData
    \/ ReadFail
    \/ ParseStatus
    \/ ValidateStatus
    \/ WritePage

\* the session on a transport whose calls return: every write() and read()
\* comes back, so the call in progress takes its next step
SpecLive == Init /\ [][NextLive]_vars /\ WF_vars(NextLive)

\* ------------------------------------------------------------------------
\* The decoder and validate_status applied to one reply on their own
\* ------------------------------------------------------------------------
InitCheck ==
    /\ op = "none"
    /\ job = None
    /\ pc = "idle"
    /\ page_idx = 0
    /\ step = 0
    /\ buffer = << >>
    /\ total_read = 0
    /\ retries = 0
    /\ status = None
    /\ result = None
    /\ events = << >>
    /\ empty_run = 0
    /\ arrived = << >>
    /\ in_reply \in CheckFrames
    /\ in_media \in Media
    /\ out_status = None
    /\ out_verdict = None
    /\ NoJob

\* read_status_reply: StatusInformation::try_from(&read_buffer[..])
DecodeReply ==
    /\ out_status = None
    /\ out_status' = Some(StatusInformation_try_from(in_reply))
    /\ UNCHANGED <<in_reply, in_media, out_verdict>>
    /\ UNCHANGED svars
    /\ UNCHANGED jvars

\* print(): Self::validate_status(&status, expected_media, type, phase) for
\* one of the four expectations
CheckReply ==
    /\ out_status # None
    /\ out_status[1].ok
    /\ out_verdict = None
    /\ \E s \in 0..3 :
          out_verdict' = Some([step |-> s,
                               v |-> validate_status(out_status[1], in_media,
                                                     Expected(s)[1], Expected(s)[2])])
    /\ UNCHANGED <<in_reply, in_media, out_status>>
    /\ UNCHANGED svars
    /\ UNCHANGED jvars

NextCheck ==
    \/ DecodeReply
    \/ CheckReply

SpecCheck == InitCheck /\ [][NextCheck]_vars

\* ------------------------------------------------------------------------
\* The decoder applied to replies that differ from a good one in one field
\* ------------------------------------------------------------------------
\* the reply of a ready QL-820NWB holding 62 mm continuous tape
ValidFrame == FirstPart(128, 65, 0, 0, 62, 10, 0) \o SecondPart(0, 0, 0, 0)

SetAt(frame, offset, v) == [frame EXCEPT ![offset + 1] = v]

\* the offsets check_fixed_field is called with, each with its expected value
FixedFields ==
    { <<0, 128>>, <<1, 32>>, <<2, 66>>, <<3, 52>>, <<5, 48>>, <<7, 0>>, <<12, 0>>,
      <<13, 0>>, <<16, 0>>, <<23, 0>>, <<24, 0>> }

\* the offsets try_from never reads
IgnoredOffsets == { 6, 14 } \cup (25..31)

\* byte values put at one offset: the expected values of the fixed fields,
\* the values the reference and real units have at offsets 6 and 14, others
ProbeBytes == { 0, 1, 4, 21, 32, 48, 52, 63, 66, 128, 255 }

\* error bytes: none, each single bit, all bits
FlagBytes == { 0, 1, 2, 4, 8, 16, 32, 64, 128, 255 }

ParseFrames ==
    { SetAt(ValidFrame, o, v) :
        o \in { f[1] : f \in FixedFields } \cup IgnoredOffsets, v \in ProbeBytes }
    \cup { SetAt(ValidFrame, 15, v) : v \in 0..255 }
    \cup { SetAt(SetAt(ValidFrame, 8, lo), 9, hi) : lo \in FlagBytes, hi \in FlagBytes }
    \cup { SetAt(SetAt(ValidFrame, 24, 1), 31, 255), SetAt(SetAt(ValidFrame, 15, 65), 6, 48) }
    \cup { SubSeq(ValidFrame, 1, n) : n \in { 0, 1, 31 } }
    \cup { ValidFrame \o <<0>>, ValidFrame \o ValidFrame }

InitParse ==
    /\ op = "none"
    /\ job = None
    /\ pc = "idle"
    /\ page_idx = 0
    /\ step = 0
    /\ buffer = << >>
    /\ total_read = 0
    /\ retries = 0
    /\ status = None
    /\ result = None
    /\ events = << >>
    /\ empty_run = 0
    /\ arrived = << >>
    /\ in_reply \in ParseFrames
    /\ in_media \in { "C62", "D17x54" }
    /\ out_status = None
    /\ out_verdict = None
    /\ NoJob

SpecParse == InitParse /\ [][NextCheck]_vars

\* ------------------------------------------------------------------------
\* Making a job (builder, from_images), lowering it (into_parts, compile)
\* and encoding a PrintInformation command
\* ------------------------------------------------------------------------
\* the media jobs are made for: continuous, continuous two-colour, die-cut
LabelMedia == { "C62", "C62R", "D12" }

\* images offered for a media: of the right size (for continuous media of two
\* heights, one with a black pixel in the first column and one with a black
\* pixel on its lower line and a red pixel in the last column of its upper
\* line, and for C62 an all-white one of 300 lines), one pixel too wide, and
\* for die-cut media one line too long
LabelImages(m) ==
    LET w == width_dots(m) IN
    IF length_dots(m) = None
    THEN { Image(w, 1, { Dot(0, 0, 0, 0, 0) }), Image(w, 2, { Dot(9, 1, 0, 0, 0), Dot(w - 1, 0, 255, 0, 0) }),
           Image(w + 1, 1, {}) }
         \cup (IF m = "C62" THEN { Image(w, 300, {}) } ELSE {})
    ELSE { Image(w, length_dots(m)[1], { Dot(0, 0, 0, 0, 0) }),
           Image(w + 1, length_dots(m)[1], {}),
           Image(w, length_dots(m)[1] + 1, {}) }

RECURSIVE TotalLines(_)
TotalLines(imgs) == IF imgs = << >> THEN 0 ELSE Head(imgs).height + TotalLines(Tail(imgs))

\* the lists of at most n images that fit the bounds
ImageLists(m, n) ==
    { l \in UNION { [1..k -> LabelImages(m)] : k \in 0..n } : TotalLines(l) <= MaxLines }

CutBehaviors == { NoCut, CutEach, CutAtEnd } \cup { CutEvery(n) : n \in 0..MaxCutEvery }

InitJob ==
    /\ op = "none"
    /\ job = None
    /\ pc = "idle"
    /\ page_idx = 0
    /\ step = 0
    /\ buffer = << >>
    /\ total_read = 0
    /\ retries = 0
    /\ status = None
    /\ result = None
    /\ events = << >>
    /\ empty_run = 0
    /\ arrived = << >>
    /\ in_reply = << >>
    /\ in_media = "C62"
    /\ out_status = None
    /\ out_verdict = None
    /\ NoJob

\* PrintJobBuilder::new(media)
NewBuilder ==
    /\ jpc = "idle"
    /\ \E m \in LabelMedia : bld' = Some(PrintJobBuilder_new(m))
    /\ jpc' = "NoImages"
    /\ UNCHANGED <<asked, given, built, pjob, parts, out_bytes, cmd, rast>>
    /\ UNCHANGED <<svars, vvars>>

\* PrintJobBuilder<NoImages>::add_label(img): the builder becomes HasImages
AddFirstLabel ==
    /\ jpc = "NoImages"
    /\ Len(bld[1].images) < MaxLabels
    /\ \E img \in LabelImages(bld[1].media) :
          /\ TotalLines(bld[1].images) + img.height <= MaxLines
          /\ bld' = Some(add_label_first(bld[1], img))
    /\ jpc' = "HasImages"
    /\ UNCHANGED <<asked, given, built, pjob, parts, out_bytes, cmd, rast>>
    /\ UNCHANGED <<svars, vvars>>

\* add_labels of the NoImages state handing back a HasImages builder
AddLabelsNoImages_to_HasImages ==
    /\ jpc = "NoImages"
    /\ \E imgs \in ImageLists(bld[1].media, MaxLabels - 1 - Len(bld[1].images)) :
          /\ TotalLines(bld[1].images) + TotalLines(imgs) <= MaxLines
          /\ bld' = Some(add_labels(bld[1], imgs))
    /\ jpc' = "HasImages"
    /\ UNCHANGED <<asked, given, built, pjob, parts, out_bytes, cmd, rast>>
    /\ UNCHANGED <<svars, vvars>>

\* PrintJobBuilder<NoImages>::add_labels(imgs): the builder stays NoImages
AddLabelsNoImages ==
    /\ jpc = "NoImages"
    /\ \E imgs \in ImageLists(bld[1].media, MaxLabels - 1 - Len(bld[1].images)) :
          /\ TotalLines(bld[1].images) + TotalLines(imgs) <= MaxLines
          /\ bld' = Some(add_labels(bld[1], imgs))
    /\ UNCHANGED <<jpc, asked, given, built, pjob, parts, out_bytes, cmd, rast>>
    /\ UNCHANGED <<svars, vvars>>

\* PrintJobBuilder<HasImages>::add_label(img)
AddLabel ==
    /\ jpc = "HasImages"
    /\ Len(bld[1].images) < MaxLabels
    /\ \E img \in LabelImages(bld[1].media) :
          /\ TotalLines(bld[1].images) + img.height <= MaxLines
          /\ bld' = Some(add_label(bld[1], img))
    /\ UNCHANGED <<jpc, asked, given, built, pjob, parts, out_bytes, cmd, rast>>
    /\ UNCHANGED <<svars, vvars>>

\* PrintJobBuilder<HasImages>::add_labels(imgs)
AddLabels ==
    /\ jpc = "HasImages"
    /\ \E imgs \in ImageLists(bld[1].media, MaxLabels - Len(bld[1].images)) :
          /\ TotalLines(bld[1].images) + TotalLines(imgs) <= MaxLines
          /\ bld' = Some(add_labels(bld[1], imgs))
    /\ UNCHANGED <<jpc, asked, given, built, pjob, parts, out_bytes, cmd, rast>>
    /\ UNCHANGED <<svars, vvars>>

IsBuilder == jpc \in { "NoImages", "HasImages" } /\ asked.calls < MaxSetterCalls

\* PrintJobBuilder<State>::copies(no_copies)
SetCopies ==
    /\ IsBuilder
    /\ \E n \in 0..MaxJobCopies :
          /\ bld' = Some([bld[1] EXCEPT !.no_copies = n])
          /\ asked' = [asked EXCEPT !.calls = @ + 1, !.no_copies = Some(n)]
    /\ UNCHANGED <<jpc, given, built, pjob, parts, out_bytes, cmd, rast>>
    /\ UNCHANGED <<svars, vvars>>

\* PrintJobBuilder<State>::high_dpi(high_dpi)
SetHighDpi ==
    /\ IsBuilder
    /\ \E b \in BOOLEAN :
          /\ bld' = Some([bld[1] EXCEPT !.high_dpi = b])
          /\ asked' = [asked EXCEPT !.calls = @ + 1, !.high_dpi = Some(b)]
    /\ UNCHANGED <<jpc, given, built, pjob, parts, out_bytes, cmd, rast>>
    /\ UNCHANGED <<svars, vvars>>

\* PrintJobBuilder<State>::compressed(compressed)
SetCompressed ==
    /\ IsBuilder
    /\ \E b \in BOOLEAN :
          /\ bld' = Some([bld[1] EXCEPT !.compressed = b])
          /\ asked' = [asked EXCEPT !.calls = @ + 1, !.compressed = Some(b)]
    /\ UNCHANGED <<jpc, given, built, pjob, parts, out_bytes, cmd, rast>>
    /\ UNCHANGED <<svars, vvars>>

\* PrintJobBuilder<State>::quality_priority(quality_priority)
SetQualityPriority ==
    /\ IsBuilder
    /\ \E b \in BOOLEAN :
          /\ bld' = Some([bld[1] EXCEPT !.quality_priority = b])
          /\ asked' = [asked EXCEPT !.calls = @ + 1, !.quality_priority = Some(b)]
    /\ UNCHANGED <<jpc, given, built, pjob, parts, out_bytes, cmd, rast>>
    /\ UNCHANGED <<svars, vvars>>

\* PrintJobBuilder<State>::cut_behavior(cut_behavior)
SetCutBehavior ==
    /\ IsBuilder
    /\ \E cb \in CutBehaviors :
          /\ bld' = Some([bld[1] EXCEPT !.cut_behavior = cb])
          /\ asked' = [asked EXCEPT !.calls = @ + 1, !.cut_behavior = Some(cb)]
    /\ UNCHANGED <<jpc, given, built, pjob, parts, out_bytes, cmd, rast>>
    /\ UNCHANGED <<svars, vvars>>

\* PrintJobBuilder<HasImages>::build(); no other state has the method
Build ==
    /\ jpc = "HasImages"
    /\ built' = Some(PrintJobBuilder_build(bld[1]))
    /\ given' = Some([via |-> "build", media |-> bld[1].media, images |-> bld[1].images])
    /\ jpc' = "built"
    /\ UNCHANGED <<bld, asked, pjob, parts, out_bytes, cmd, rast>>
    /\ UNCHANGED <<svars, vvars>>

\* PrintJob::from_images(images, media), from_image being the one-image case
FromImages ==
    /\ jpc = "idle"
    /\ \E m \in LabelMedia : \E imgs \in ImageLists(m, MaxLabels) :
          /\ built' = Some(PrintJob_from_images(imgs, m))
          /\ given' = Some([via |-> "from_images", media |-> m, images |-> imgs])
    /\ jpc' = "built"
    /\ UNCHANGED <<bld, asked, pjob, parts, out_bytes, cmd, rast>>
    /\ UNCHANGED <<svars, vvars>>

\* a PrintJob about to be lowered: the raster images of accepted images and
\* the settings fields (pub(crate)) at any value of their types
TakeJob ==
    /\ jpc = "idle"
    /\ \E m \in LabelMedia : \E imgs \in ImageLists(m, MaxLabels) :
          LET made == PrintJob_from_images(imgs, m) IN
          /\ made.ok
          /\ given' = Some([via |-> "fields", media |-> m, images |-> imgs])
          /\ \E c \in 0..MaxJobCopies, hd \in BOOLEAN, co \in BOOLEAN, qp \in BOOLEAN,
                cb \in CutBehaviors :
                pjob' = Some([made.job EXCEPT !.no_copies = c, !.high_dpi = hd,
                                             !.compressed = co, !.quality_priority = qp,
                                             !.cut_behavior = cb])
    /\ jpc' = "job"
    /\ UNCHANGED <<bld, asked, built, parts, out_bytes, cmd, rast>>
    /\ UNCHANGED <<svars, vvars>>

\* PrintJob::into_parts(self)
IntoParts ==
    /\ jpc = "job"
    /\ parts' = Some(into_parts(pjob[1]))
    /\ jpc' = "lowered"
    /\ UNCHANGED <<bld, asked, given, built, pjob, out_bytes, cmd, rast>>
    /\ UNCHANGED <<svars, vvars>>

\* PrintJob::compile(self)
Compile ==
    /\ jpc = "job"
    /\ out_bytes' = Some(compile(pjob[1]))
    /\ jpc' = "compiled"
    /\ UNCHANGED <<bld, asked, given, built, pjob, parts, cmd, rast>>
    /\ UNCHANGED <<svars, vvars>>

\* the line counts a PrintInformation command is encoded with
LineCounts == { 0, 1, 300, 70000 }

\* Vec::<u8>::from(RasterCommand::PrintInformation { .. })
EncodePrintInformation ==
    /\ jpc = "idle"
    /\ \E m \in Media, qp \in BOOLEAN, ro \in BOOLEAN, nl \in LineCounts, fp \in BOOLEAN :
          cmd' = Some([media |-> m, quality_priority |-> qp, recovery_on |-> ro,
                       no_lines |-> nl, first_page |-> fp,
                       bytes |-> RC_PrintInformation(m, qp, ro, nl, fp)])
    /\ jpc' = "encoded"
    /\ UNCHANGED <<bld, asked, given, built, pjob, parts, out_bytes, rast>>
    /\ UNCHANGED <<svars, vvars>>

\* images handed to create_mask: of the media's width and one to three rows,
\* with pixels in the first and the last column and in between; black, red,
\* and a light gray that the bi-level mask leaves white
MaskImages(m) ==
    LET w == width_dots(m) IN
    { Image(w, 1, { Dot(0, 0, 0, 0, 0), Dot(w - 1, 0, 255, 0, 0) }),
      Image(w, 2, { Dot(0, 1, 255, 0, 0), Dot(w - 1, 0, 0, 0, 0), Dot(9, 0, 220, 220, 220) }),
      Image(w, 3, { Dot(9, 0, 0, 0, 0), Dot(17, 2, 255, 0, 0), Dot(w - 1, 1, 0, 0, 0) }) }

MaskPredicates == { "black_of_two", "red", "monochrome" }

\* mask_to_raster_layer(create_mask(img, media.left_margin(), predicate))
Rasterize ==
    /\ jpc = "idle"
    /\ \E m \in Media : \E img \in MaskImages(m) : \E pred \in MaskPredicates :
          LET mask == create_mask(img, left_margin(m), pred) IN
          rast' = Some([media |-> m, img |-> img, predicate |-> pred, mask |-> mask,
                        layer |-> mask_to_raster_layer(mask)])
    /\ jpc' = "rastered"
    /\ UNCHANGED <<bld, asked, given, built, pjob, parts, out_bytes, cmd>>
    /\ UNCHANGED <<svars, vvars>>

NextJob ==
    \/ NewBuilder
    \/ AddFirstLabel
    \/ AddLabelsNoImages
    \/ AddLabel
    \/ AddLabels
    \/ SetCopies
    \/ SetHighDpi
    \/ SetCompressed
    \/ SetQualityPriority
    \/ SetCutBehavior
    \/ Build
    \/ FromImages
    \/ TakeJob
    \/ IntoParts
    \/ Compile
    \/ EncodePrintInformation
    \/ Rasterize

SpecJob == InitJob /\ [][NextJob]_vars

\* ------------------------------------------------------------------------
\* Properties of the session
\* ------------------------------------------------------------------------
IsStatusRead(ev) == ev.e = "status_read"

IsPageWrite(ev) == ev.e = "write" /\ ev.what = "page"

IsReadOk(ev) == ev.e = "status_read" /\ ev.what = "Ok" /\ ev.reply # None

\* a validation that passed, of a reply that really has this type and phase
IsValidated(ev, type, phase) ==
    /\ ev.e = "validate"
    /\ ev.n = 1
    /\ ev.reply # None
    /\ ev.reply[1].status_type = type
    /\ ev.reply[1].phase = phase

StatusReads == SelectSeq(events, IsStatusRead)

PageWrites == SelectSeq(events, IsPageWrite)

\* the reply the printer is scripted to give to the i-th status read
Script(i) ==
    IF i = 1 THEN <<"StatusRequestReply", "Receiving">>
    ELSE IF (i - 2) % 3 = 0 THEN <<"PhaseChange", "Printing">>
    ELSE IF (i - 2) % 3 = 1 THEN <<"PrintingCompleted", "Printing">>
    ELSE <<"PhaseChange", "Receiving">>

\* a reply without error flags that reports the media's type, width and length
ReportsMedia(reply, media) ==
    /\ reply.errors = 0
    /\ reply.media_type = Some(label_type(media))
    /\ reply.media_width = width_mm(media)
    /\ reply.media_length = (IF length_mm(media) = None THEN 0 ELSE length_mm(media)[1])

\* every write so far was accepted whole and every status read so far was
\* answered with the scripted reply
TransportFollowsScript ==
    \A i \in 1..Len(events) :
        /\ events[i].e = "write" => events[i].n = events[i].len
        /\ events[i].e = "status_read" =>
              LET idx == Cardinality({ j \in 1..i : events[j].e = "status_read" }) IN
              /\ IsReadOk(events[i])
              /\ ReportsMedia(events[i].reply[1], job[1].media)
              /\ events[i].reply[1].status_type = Script(idx)[1]
              /\ events[i].reply[1].phase = Script(idx)[2]

\* C1: when the transport follows the happy-path script, print() of a job of
\* N >= 1 pages returns Ok after writing every page block once, in order, and
\* after exactly 1 + 3N status reads.
C1_HappyPathReturnsOk ==
    (pc = "done" /\ op = "print" /\ page_count(job[1]) >= 1 /\ TransportFollowsScript)
    => /\ result[1].ok
       /\ Len(StatusReads) = 1 + 3 * page_count(job[1])
       /\ Len(PageWrites) = page_count(job[1])
       /\ \A p \in 1..Len(PageWrites) :
             /\ PageWrites[p].k = p - 1
             /\ PageWrites[p].len = Len(build(into_parts(job[1]).page_data[p]))
             /\ PageWrites[p].n = PageWrites[p].len

C1_Witness ==
    /\ pc = "done" /\ op = "print"
    /\ page_count(job[1]) = 2
    /\ TransportFollowsScript
    /\ result[1].ok
    /\ Len(StatusReads) = 7

\* C2: a page block is written only after the previous step of the strict
\* sequence is complete: page 0 after the reply to the status request was read
\* and validated as (StatusRequestReply, Receiving); page k+1 after page k was
\* written and its three replies were read and validated as (PhaseChange,
\* Printing), (PrintingCompleted, Printing), (PhaseChange, Receiving), in that
\* order; page indices only grow, so no page is written twice or out of order.
C2_PagesInStrictSequence ==
    \A i \in 1..Len(events) :
        IsPageWrite(events[i]) =>
            LET k == events[i].k IN
            /\ \A j \in 1..(i - 1) : IsPageWrite(events[j]) => events[j].k < k
            /\ IF k = 0
               THEN /\ i > 2
                    /\ IsReadOk(events[i - 2])
                    /\ IsValidated(events[i - 1], "StatusRequestReply", "Receiving")
               ELSE /\ i > 7
                    /\ IsPageWrite(events[i - 7])
                    /\ events[i - 7].k = k - 1
                    /\ events[i - 7].r = "none"
                    /\ IsReadOk(events[i - 6])
                    /\ IsValidated(events[i - 5], "PhaseChange", "Printing")
                    /\ IsReadOk(events[i - 4])
                    /\ IsValidated(events[i - 3], "PrintingCompleted", "Printing")
                    /\ IsReadOk(events[i - 2])
                    /\ IsValidated(events[i - 1], "PhaseChange", "Receiving")

C2_Witness ==
    \E i \in 1..Len(events) : IsPageWrite(events[i]) /\ events[i].k = 1

\* print() has returned an error
PrintFailed == pc = "done" /\ op = "print" /\ ~result[1].ok

\* C4: every error print() returns carries a page_no: 0 when nothing of a page
\* was sent yet (preamble write, status request, first status read or its
\* validation), and k + 1 when the failure is the write of page k (0-based) or
\* the read or validation of one of that page's three replies.
C4_ErrorsCarryPageNo ==
    PrintFailed =>
        result[1].page_no =
            (IF Len(PageWrites) = 0 THEN 0 ELSE PageWrites[Len(PageWrites)].k + 1)

\* an error flag in the third reply of the second page: page_no = 2,
\* source = Protocol(PrinterError)
C4_Witness ==
    /\ PrintFailed
    /\ result[1].page_no = 2
    /\ result[1].source.kind = "Protocol"
    /\ result[1].source.err.kind = "PrinterError"
    /\ Len(PageWrites) = 2
    /\ events[Len(events)].e = "validate"
    /\ events[Len(events)].what = "PhaseChange"
    /\ events[Len(events)].r = "Receiving"
    /\ events[Len(events)].reply[1].errors # 0

\* the call in progress has returned NoResponse
NoResponseReturned ==
    /\ pc = "done"
    /\ ~result[1].ok
    /\ IF op = "get_status" THEN result[1].err.kind = "NoResponse"
       ELSE result[1].source.kind = "Status" /\ result[1].source.err.kind = "NoResponse"

\* C5 as stated: read_exact fails with NoResponse exactly when 60 consecutive
\* read attempts have returned zero bytes.
C5_NoResponseAt60EmptyReads == NoResponseReturned <=> empty_run >= 60

\* C5: read_exact fails with NoResponse exactly when 61 consecutive read
\* attempts have returned zero bytes (60 retries after the first); a read that
\* returns data puts the count of empty attempts back to zero, so the count
\* is always the number of empty reads since the last data.
C5_NoResponseAt61EmptyReads ==
    /\ NoResponseReturned <=> empty_run = 61
    /\ empty_run <= 61
    /\ pc = "read" => retries = empty_run

\* NoResponse after part of the reply had arrived
C5_Witness ==
    /\ NoResponseReturned
    /\ total_read > 0
    /\ total_read < StatusLen
    /\ empty_run = 61

\* the transport error a failed call carries
CarriesWriteError(err) ==
    IF op = "get_status"
    THEN result[1].err.kind = "Connection" /\ result[1].err.err = err
    ELSE \/ result[1].source.kind = "Connection" /\ result[1].source.err = err
         \/ /\ result[1].source.kind = "Status"
            /\ result[1].source.err.kind = "Connection"
            /\ result[1].source.err.err = err

\* C9: get_status() writes the 402-byte preamble, then the three bytes
\* 1B 69 53, then reads one 32-byte reply, each once and in this order, and
\* returns the decoded reply as it is whenever decoding succeeds, whatever its
\* error flags, phase and status type.
C9_GetStatusReturnsReplyUnchanged ==
    (pc = "done" /\ op = "get_status") =>
        /\ Len(events) >= 1
        /\ events[1].e = "write" /\ events[1].len = 402
        /\ events[1].head = <<0, 0, 0>> /\ events[1].tail = <<27, 64>>
        /\ IF events[1].r # "none" THEN Len(events) = 1
           ELSE /\ Len(events) >= 2
                /\ events[2].e = "write" /\ events[2].len = 3
                /\ events[2].head = <<27, 105, 83>>
                /\ IF events[2].r # "none" THEN Len(events) = 2
                   ELSE /\ Len(events) = 3
                        /\ events[3].e = "status_read"
        /\ (total_read = 32 /\ StatusInformation_try_from(buffer).ok) =>
               /\ Len(events) = 3
               /\ result[1].ok
               /\ result[1].status = StatusInformation_try_from(buffer)
               /\ result[1].status.errors = At(buffer, 8) + 256 * At(buffer, 9)
               /\ result[1].status.media_width = At(buffer, 10)
               /\ result[1].status.media_length = At(buffer, 17)

\* a reply with NoMedia, in phase Printing, of type PhaseChange is returned
C9_Witness ==
    /\ pc = "done" /\ op = "get_status"
    /\ Len(events) = 3
    /\ result[1].ok
    /\ result[1].status.errors = 1
    /\ result[1].status.phase = "Printing"
    /\ result[1].status.status_type = "PhaseChange"

\* C10: a transport write returns Ok iff the device accepted all len(data)
\* bytes and IncompleteWrite if it accepted fewer; a failed write is the last
\* thing the call does, and print() returns its error tagged with the current
\* page_no: 0 before the pages, k + 1 for the write of page k.
C10_WriteIsAllOrNothing ==
    \A i \in 1..Len(events) :
        events[i].e = "write" =>
            /\ events[i].r = "none" <=> events[i].n = events[i].len
            /\ (events[i].n >= 0 /\ events[i].n < events[i].len) =>
                   events[i].r = "IncompleteWrite"
            /\ events[i].r # "none" =>
                   /\ i = Len(events)
                   /\ pc = "done"
                   /\ ~result[1].ok
                   /\ CarriesWriteError(events[i].r)
                   /\ op = "print" =>
                          result[1].page_no =
                              (IF events[i].what = "page" THEN events[i].k + 1 ELSE 0)

\* the block of the second page is accepted short of one byte
C10_Witness ==
    /\ PrintFailed
    /\ events[Len(events)].e = "write"
    /\ events[Len(events)].what = "page"
    /\ events[Len(events)].k = 1
    /\ events[Len(events)].n = events[Len(events)].len - 1
    /\ result[1].page_no = 2
    /\ result[1].source.kind = "Connection"
    /\ result[1].source.err = "IncompleteWrite"

\* ------------------------------------------------------------------------
\* Claims about validate_status, read off the reply's bytes
\* ------------------------------------------------------------------------
\* (media type byte, width, length) as the reply carries them
ReplyTriple == <<At(in_reply, 11), At(in_reply, 10), At(in_reply, 17)>>

\* the 16 flag bits of the reply: offset 8 is the low byte, offset 9 the high one
ReplyFlags == At(in_reply, 8) + 256 * At(in_reply, 9)

ReplyType ==
    CASE At(in_reply, 18) = 0 -> "StatusRequestReply"
      [] At(in_reply, 18) = 1 -> "PrintingCompleted"
      [] At(in_reply, 18) = 2 -> "ErrorOccured"
      [] At(in_reply, 18) = 6 -> "PhaseChange"
      [] OTHER -> "other"

ReplyPhase == IF At(in_reply, 19) = 0 THEN "Receiving" ELSE "Printing"

JobTriple == MediaTriple(in_media)

Checked == out_verdict # None

Verdict == out_verdict[1].v

Waited == Expected(out_verdict[1].step)

\* C3: validate_status checks the media first, then the error flags, then the
\* expected (status type, phase): a reply whose media differs from the job's
\* yields MediaMismatch whatever its flags and phase are, and a reply with
\* matching media and non-zero flags yields PrinterError carrying exactly the
\* reply's 16 flag bits whatever its status type and phase are.
C3_MediaThenFlagsThenPhase ==
    Checked =>
        /\ ReplyTriple # JobTriple => ~Verdict.ok /\ Verdict.kind = "MediaMismatch"
        /\ ReplyTriple = JobTriple /\ ReplyFlags # 0 =>
               /\ ~Verdict.ok
               /\ Verdict.kind = "PrinterError"
               /\ Verdict.flags = ReplyFlags

\* matching media, NoMedia and CoverOpen set, and a status type that is not
\* the expected one: PrinterError with both bits
C3_Witness ==
    /\ Checked
    /\ ReplyTriple = JobTriple
    /\ ReplyFlags = 4097
    /\ ReplyType # Waited[1]
    /\ ~Verdict.ok
    /\ Verdict.kind = "PrinterError"
    /\ Verdict.flags = 4097

\* C6: for a reply that matches the job's media and has no error flag,
\* validate_status returns Ok iff the reply's status type and phase both equal
\* the expected ones; otherwise it returns UnexpectedStatus with the expected
\* pair the driver waited for and the reply's own pair as the actual one.
C6_OkIffTypeAndPhaseExpected ==
    Checked /\ ReplyTriple = JobTriple /\ ReplyFlags = 0 =>
        /\ Verdict.ok <=> (ReplyType = Waited[1] /\ ReplyPhase = Waited[2])
        /\ ~Verdict.ok =>
               /\ Verdict.kind = "UnexpectedStatus"
               /\ Verdict.expected_type = Waited[1]
               /\ Verdict.expected_phase = Waited[2]
               /\ Verdict.actual_type = ReplyType
               /\ Verdict.actual_phase = ReplyPhase

\* the expected status type in the wrong phase is refused
C6_Witness ==
    /\ Checked
    /\ ReplyTriple = JobTriple
    /\ ReplyFlags = 0
    /\ ReplyType = Waited[1]
    /\ ReplyPhase # Waited[2]
    /\ ~Verdict.ok
    /\ Verdict.kind = "UnexpectedStatus"

\* C7: validate_status returns MediaMismatch iff the reply's (type, width,
\* length) differs from the job media's (label type, width_mm, length_mm or 0);
\* expected_media is then the job's media, and reported_media is a catalogue
\* entry with the reply's triple, or None when no entry has it.
C7_MediaMismatchIffTripleDiffers ==
    Checked =>
        /\ (~Verdict.ok /\ Verdict.kind = "MediaMismatch") <=> ReplyTriple # JobTriple
        /\ ReplyTriple # JobTriple =>
               /\ Verdict.expected_media = in_media
               /\ IF \E m \in Media : MediaTriple(m) = ReplyTriple
                  THEN /\ Verdict.reported_media # None
                       /\ MediaTriple(Verdict.reported_media[1]) = ReplyTriple
                  ELSE Verdict.reported_media = None

\* a reply with media type byte 0x00 and the job's width: no entry is reported
C7_Witness ==
    /\ Checked
    /\ At(in_reply, 11) = 0
    /\ At(in_reply, 10) = width_mm(in_media)
    /\ ~Verdict.ok
    /\ Verdict.kind = "MediaMismatch"
    /\ Verdict.expected_media = in_media
    /\ Verdict.reported_media = None

\* C8 as stated: every reply with the NoMedia flag, whatever media it reports,
\* is reported as PrinterError with NoMedia among the flags.
C8_NoMediaAlwaysPrinterError ==
    Checked /\ ReplyFlags % 2 = 1 =>
        ~Verdict.ok /\ Verdict.kind = "PrinterError" /\ Verdict.flags % 2 = 1

\* C8: a reply with the NoMedia flag decodes to errors containing NoMedia, and
\* when its media type, width and length are those of the job's media the
\* validation reports PrinterError with NoMedia among the flags.
C8_NoMediaOnMatchingMedia ==
    /\ out_status # None /\ out_status[1].ok /\ ReplyFlags % 2 = 1 =>
           out_status[1].errors % 2 = 1
    /\ Checked /\ ReplyFlags % 2 = 1 /\ ReplyTriple = JobTriple =>
           ~Verdict.ok /\ Verdict.kind = "PrinterError" /\ Verdict.flags % 2 = 1

\* bytes 8..9 = 01 00 with status type ErrorOccured on the job's media
C8_Witness ==
    /\ Checked
    /\ At(in_reply, 8) = 1 /\ At(in_reply, 9) = 0
    /\ At(in_reply, 18) = 2
    /\ ReplyTriple = JobTriple
    /\ ~Verdict.ok
    /\ Verdict.kind = "PrinterError"
    /\ Verdict.flags = 1

\* ------------------------------------------------------------------------
\* Claims about the lowering, read off the encoded commands of the pages
\* ------------------------------------------------------------------------
Lowered == jpc = "lowered"

Pages == parts[1].page_data

TheJob == pjob[1]

NoImagesOfJob == Len(TheJob.raster_images)

\* copies times images
PageCountOfJob == TheJob.no_copies * NoImagesOfJob

\* 'g' and 'w' start a raster transfer
IsTransfer(c) == c[1] \in { 103, 119 }

Payload(c) == SubSeq(c, 4, Len(c))

\* the raster lines of an image in the order they are sent: top of the layer
\* first, and for two colours the black line before the red line of each row
NoLinesSent(img) ==
    IF img.kind = "Monochrome" THEN Len(img.black_layer) ELSE 2 * Len(img.black_layer)

LineSent(img, t) ==
    IF img.kind = "Monochrome" THEN img.black_layer[t]
    ELSE IF t % 2 = 1 THEN img.black_layer[(t + 1) \div 2]
    ELSE img.red_layer[t \div 2]

HasPrefix(c, prefix) == Len(c) >= Len(prefix) /\ SubSeq(c, 1, Len(prefix)) = prefix

\* 1 if the fifth command of the page is SpecifyPageNumber, else 0
PageNumberGiven(page) == IF Len(page) >= 5 /\ HasPrefix(page[5], <<27, 105, 65>>) THEN 1 ELSE 0

\* the commands of a page that are raster transfers, in order
NoTransfers(page) == Cardinality({ i \in 1..Len(page) : IsTransfer(page[i]) })

\* the place of the first raster transfer: after the seven or eight commands
\* that set the page up
FirstTransfer(page) == 8 + PageNumberGiven(page)

\* C11: a job of c copies and m images lowers to exactly c * m page blocks,
\* and page k (0-based) carries the raster lines of image k mod m: all images
\* in order for copy 0, then for copy 1, and so on.
C11_PagesAreCopiesTimesImages ==
    Lowered =>
        /\ Len(Pages) = PageCountOfJob
        /\ \A k \in 0..(Len(Pages) - 1) :
               LET page == Pages[k + 1]
                   img == TheJob.raster_images[(k % NoImagesOfJob) + 1]
               IN  /\ NoTransfers(page) = NoLinesSent(img)
                   /\ \A t \in 1..NoLinesSent(img) :
                          /\ IsTransfer(page[FirstTransfer(page) + t - 1])
                          /\ Payload(page[FirstTransfer(page) + t - 1]) = LineSent(img, t)

\* two copies of two different images: four pages, the third one carrying
\* the first image again
C11_Witness ==
    /\ Lowered
    /\ TheJob.no_copies = 2
    /\ NoImagesOfJob = 2
    /\ TheJob.raster_images[1] # TheJob.raster_images[2]
    /\ Len(Pages) = 4
    /\ Payload(Pages[3][FirstTransfer(Pages[3])]) = LineSent(TheJob.raster_images[1], 1)
    /\ Payload(Pages[3][FirstTransfer(Pages[3])]) # LineSent(TheJob.raster_images[2], 1)

\* C12: every page block is, in this order: SwitchDynamicCommandMode(raster),
\* SwitchAutomaticStatusNotificationMode(notify), PrintInformation,
\* VariousMode, an optional SpecifyPageNumber, ExpandedMode,
\* SpecifyMarginAmount (35 for continuous media, 0 for die-cut, low byte
\* first), SelectCompressionMode(no compression), all raster transfers of the
\* image, and one terminator, with nothing after it.
C12_PageBlockOrder ==
    Lowered =>
        \A k \in 0..(Len(Pages) - 1) :
            LET page == Pages[k + 1]
                opt == PageNumberGiven(page)
                img == TheJob.raster_images[(k % NoImagesOfJob) + 1]
                margin == IF label_type(TheJob.media) = "Continuous" THEN 35 ELSE 0
            IN  /\ Len(page) >= 8 + opt
                /\ page[1] = <<27, 105, 97, 1>>
                /\ page[2] = <<27, 105, 33, 0>>
                /\ Len(page[3]) = 13 /\ HasPrefix(page[3], <<27, 105, 122>>)
                /\ Len(page[4]) = 4 /\ HasPrefix(page[4], <<27, 105, 77>>)
                /\ opt = 1 => Len(page[5]) = 4
                /\ Len(page[5 + opt]) = 4 /\ HasPrefix(page[5 + opt], <<27, 105, 75>>)
                /\ page[6 + opt] = <<27, 105, 100, margin, 0>>
                /\ page[7 + opt] = <<77, 0>>
                /\ Len(page) = 7 + opt + NoLinesSent(img) + 1
                /\ \A i \in (8 + opt)..(Len(page) - 1) :
                       IsTransfer(page[i]) /\ Len(page[i]) = 93
                /\ page[Len(page)] \in { <<12>>, <<26>> }

\* a die-cut page without SpecifyPageNumber: margin 0, then 94 transfers
C12_Witness ==
    /\ Lowered
    /\ label_type(TheJob.media) = "DieCut"
    /\ TheJob.compressed
    /\ Len(Pages) >= 1
    /\ PageNumberGiven(Pages[1]) = 0
    /\ Pages[1][6] = <<27, 105, 100, 0, 0>>
    /\ Pages[1][7] = <<77, 0>>
    /\ Len(Pages[1]) = 7 + 94 + 1

\* C13: in the page blocks of a job with page_count >= 1, only page 0 has
\* PrintInformation first_page = true (byte 0x00), only the last page (index
\* page_count - 1) ends with PrintWithFeed (1A), and every other page ends
\* with Print (0C).
C13_FirstPageAndTerminators ==
    (Lowered /\ PageCountOfJob >= 1) =>
        /\ Len(Pages) = PageCountOfJob
        /\ \A k \in 0..(PageCountOfJob - 1) :
               LET page == Pages[k + 1] IN
               /\ page[3][12] = (IF k = 0 THEN 0 ELSE 1)
               /\ page[Len(page)] = (IF k = PageCountOfJob - 1 THEN <<26>> ELSE <<12>>)

C13_Witness ==
    /\ Lowered
    /\ PageCountOfJob = 4
    /\ Pages[1][3][12] = 0
    /\ Pages[2][3][12] = 1
    /\ Pages[3][Len(Pages[3])] = <<12>>
    /\ Pages[4][Len(Pages[4])] = <<26>>

\* bit 3 of the ExpandedMode byte of a page
CutAtEndBit(page) == (page[5 + PageNumberGiven(page)][4] \div 8) % 2 = 1

\* C14: for page k of a job, ExpandedMode.cut_at_end is true iff cut_behavior
\* is CutAtEnd, or cut_behavior is CutEvery(n), page_count mod n # 0 and k is
\* the last page (stated for n >= 1).
C14_CutAtEndPolicy ==
    (Lowered /\ ~(TheJob.cut_behavior.kind = "CutEvery" /\ TheJob.cut_behavior.n = 0)) =>
        \A k \in 0..(Len(Pages) - 1) :
            CutAtEndBit(Pages[k + 1]) <=>
                \/ TheJob.cut_behavior.kind = "CutAtEnd"
                \/ /\ TheJob.cut_behavior.kind = "CutEvery"
                   /\ PageCountOfJob % TheJob.cut_behavior.n # 0
                   /\ k = PageCountOfJob - 1

\* one copy of two images with CutEvery(2): the page count is a multiple of
\* 2, and cut_at_end is set, on the first page too
C14_Witness ==
    /\ Lowered
    /\ TheJob.cut_behavior = CutEvery(2)
    /\ TheJob.no_copies = 1
    /\ NoImagesOfJob = 2
    /\ CutAtEndBit(Pages[1])
    /\ CutAtEndBit(Pages[2])

\* C15: in every page block VariousMode.auto_cut (0x40) is set iff
\* cut_behavior is not None, and SpecifyPageNumber is there iff cut_behavior
\* is CutEach (value 1) or CutEvery(n) (value n), not for None and CutAtEnd.
C15_AutoCutAndPageNumber ==
    Lowered =>
        \A k \in 0..(Len(Pages) - 1) :
            LET page == Pages[k + 1]
                cb == TheJob.cut_behavior
            IN  /\ page[4][4] = (IF cb.kind = "None" THEN 0 ELSE 64)
                /\ PageNumberGiven(page) = 1 <=> cb.kind \in { "CutEach", "CutEvery" }
                /\ cb.kind = "CutEach" => page[5] = <<27, 105, 65, 1>>
                /\ cb.kind = "CutEvery" => page[5] = <<27, 105, 65, cb.n>>

C15_Witness ==
    /\ Lowered
    /\ TheJob.cut_behavior = CutEvery(2)
    /\ Len(Pages) >= 1
    /\ Pages[1][4] = <<27, 105, 77, 64>>
    /\ Pages[1][5] = <<27, 105, 65, 2>>

\* ------------------------------------------------------------------------
\* Claims about the making of a job
\* ------------------------------------------------------------------------
\* build() has returned a job
BuiltByBuilder == jpc = "built" /\ given[1].via = "build" /\ built[1].ok

\* the value a setting should have: the last one given, else the default
AskedOr(field, default) == IF field = None THEN default ELSE field[1]

\* C16: the PrintJob returned by build() carries the settings accumulated on
\* the builder: copies, high_dpi, compressed, quality_priority and
\* cut_behavior are the last values set (the defaults when never set), and
\* its images are the added images in order.
C16_BuildKeepsSettings ==
    BuiltByBuilder =>
        LET j == built[1].job IN
        /\ j.no_copies = AskedOr(asked.no_copies, 1)
        /\ j.high_dpi = AskedOr(asked.high_dpi, FALSE)
        /\ j.compressed = AskedOr(asked.compressed, FALSE)
        /\ j.quality_priority = AskedOr(asked.quality_priority, TRUE)
        /\ j.cut_behavior = AskedOr(asked.cut_behavior, default_cut_behavior(given[1].media))
        /\ Len(j.raster_images) = Len(given[1].images)
        /\ \A i \in 1..Len(j.raster_images) :
               j.raster_images[i] = RasterImage_new(given[1].images[i], given[1].media).image

\* copies(2) was the last call before build(), and the job has one copy
C16_Witness ==
    /\ BuiltByBuilder
    /\ asked.no_copies = Some(2)
    /\ bld[1].no_copies = 2
    /\ built[1].job.no_copies = 1

\* C17: build() is called only on a builder in the HasImages state, a
\* builder in that state holds at least one image, and so every job that
\* build() returns has at least one raster image.
C17_BuildNeedsAnImage ==
    /\ [](/\ jpc = "HasImages" => Len(bld[1].images) >= 1
          /\ (given # None /\ given[1].via = "build") => Len(given[1].images) >= 1
          /\ BuiltByBuilder => Len(built[1].job.raster_images) >= 1)
    /\ [][(given' # given /\ given'[1].via = "build") => jpc = "HasImages"]_vars

C17_Witness ==
    /\ BuiltByBuilder
    /\ Len(built[1].job.raster_images) = 2

\* an image is accepted for a media iff its width is width_dots and, for
\* die-cut media, its height is length_dots
Accepted(img, media) ==
    /\ img.width = width_dots(media)
    /\ label_type(media) = "DieCut" => img.height = length_dots(media)[1]

Bit(byte, i) == (byte \div (2 ^ i)) % 2 = 1

\* C19: for every media and every quality_priority and recovery_on, the
\* valid_flag byte of PrintInformation has bits 1 and 2 set, bit 3 iff the
\* media is die-cut, bit 6 iff quality_priority, bit 7 iff recovery_on, and
\* bits 0, 4, 5 clear; the media type byte is 0x0A for continuous media and
\* 0x0B for die-cut.
C19_ValidFlagBits ==
    cmd # None =>
        LET c == cmd[1]
            valid_flag == c.bytes[4]
            die_cut == label_type(c.media) = "DieCut"
        IN  /\ Len(c.bytes) = 13
            /\ Bit(valid_flag, 1) /\ Bit(valid_flag, 2)
            /\ Bit(valid_flag, 3) <=> die_cut
            /\ Bit(valid_flag, 6) <=> c.quality_priority
            /\ Bit(valid_flag, 7) <=> c.recovery_on
            /\ ~Bit(valid_flag, 0) /\ ~Bit(valid_flag, 4) /\ ~Bit(valid_flag, 5)
            /\ c.bytes[5] = (IF die_cut THEN 11 ELSE 10)

\* die-cut, speed before quality, recovery on: 0x8E
C19_Witness ==
    /\ cmd # None
    /\ label_type(cmd[1].media) = "DieCut"
    /\ ~cmd[1].quality_priority
    /\ cmd[1].recovery_on
    /\ cmd[1].bytes[4] = 142
    /\ cmd[1].bytes[5] = 11

\* compile() of the default job of one 696x300 image on C62 has returned
CompiledDefaultC62 ==
    /\ jpc = "compiled"
    /\ given[1].media = "C62"
    /\ Len(given[1].images) = 1
    /\ given[1].images[1].width = 696 /\ given[1].images[1].height = 300
    /\ pjob[1] = PrintJob_from_images(given[1].images, "C62").job

\* C20 as stated: the output starts with 400 zero bytes and 1B 40, and the
\* bytes at offsets 402..414 are 1B 69 7A 46 0A 3E 00 2C 01 00 00 00 00.
C20_PrintInformationWith46 ==
    CompiledDefaultC62 =>
        /\ \A i \in 1..400 : out_bytes[1][i] = 0
        /\ SubSeq(out_bytes[1], 401, 402) = <<27, 64>>
        /\ SubSeq(out_bytes[1], 403, 415) = <<27, 105, 122, 70, 10, 62, 0, 44, 1, 0, 0, 0, 0>>

\* C20: the output starts with 400 zero bytes and 1B 40; the page block
\* opens with 1B 69 61 01 and 1B 69 21 00, and the bytes at offsets 410..422
\* are the PrintInformation command 1B 69 7A C6 0A 3E 00 2C 01 00 00 00 00:
\* valid_flag 0xC6 (recovery is always on), 300 lines as 2C 01 00 00,
\* first-page byte 00.
C20_PrintInformationAt410WithC6 ==
    CompiledDefaultC62 =>
        /\ \A i \in 1..400 : out_bytes[1][i] = 0
        /\ SubSeq(out_bytes[1], 401, 402) = <<27, 64>>
        /\ SubSeq(out_bytes[1], 403, 410) = <<27, 105, 97, 1, 27, 105, 33, 0>>
        /\ SubSeq(out_bytes[1], 411, 423) = <<27, 105, 122, 198, 10, 62, 0, 44, 1, 0, 0, 0, 0>>

C20_Witness ==
    /\ CompiledDefaultC62
    /\ Len(out_bytes[1]) = 402 + 4 + 4 + 13 + 4 + 4 + 4 + 5 + 2 + 300 * 93 + 1
    /\ out_bytes[1][414] = 198

\* ------------------------------------------------------------------------
\* Claims about the raster data of a page
\* ------------------------------------------------------------------------
\* the raster image and the source image that page k (from 1) is made of
ImageOfPage(k) == TheJob.raster_images[((k - 1) % NoImagesOfJob) + 1]

SourceOfPage(k) == given[1].images[((k - 1) % NoImagesOfJob) + 1]

\* C21: in every page of a two-colour job the raster transfers alternate
\* black then red: transfer 2i is 77 01 5A with black line i and transfer
\* 2i+1 is 77 02 5A with red line i, and there are as many black transfers as
\* red ones, namely the height of the image.
C21_TwoColorAlternates ==
    Lowered =>
        \A k \in 1..Len(Pages) :
            ImageOfPage(k).kind = "TwoColor" =>
                /\ Len(ImageOfPage(k).black_layer) = SourceOfPage(k).height
                /\ Len(ImageOfPage(k).red_layer) = SourceOfPage(k).height
                /\ Len(Pages[k]) = FirstTransfer(Pages[k]) + 2 * SourceOfPage(k).height
                /\ \A i \in 0..(SourceOfPage(k).height - 1) :
                       /\ Pages[k][FirstTransfer(Pages[k]) + 2 * i]
                              = <<119, 1, 90>> \o ImageOfPage(k).black_layer[i + 1]
                       /\ Pages[k][FirstTransfer(Pages[k]) + 2 * i + 1]
                              = <<119, 2, 90>> \o ImageOfPage(k).red_layer[i + 1]
                /\ ~IsTransfer(Pages[k][Len(Pages[k])])

\* a C62R page of two rows: the black pixel of the lower row goes out in the
\* first transfer, the red pixel of the upper row in the fourth
C21_Witness ==
    /\ Lowered
    /\ TheJob.media = "C62R"
    /\ Len(Pages) >= 1
    /\ SourceOfPage(1).height = 2
    /\ Len(Pages[1]) = FirstTransfer(Pages[1]) + 4
    /\ Payload(Pages[1][FirstTransfer(Pages[1])]) # Zeros(90)
    /\ Payload(Pages[1][FirstTransfer(Pages[1]) + 1]) = Zeros(90)
    /\ Payload(Pages[1][FirstTransfer(Pages[1]) + 2]) = Zeros(90)
    /\ Payload(Pages[1][FirstTransfer(Pages[1]) + 3]) # Zeros(90)

\* the valid_flag byte of the page's PrintInformation (its third command)
ValidFlag(page) == page[3][4]

\* the flags byte of the page's ExpandedMode
ExpandedFlags(page) == page[5 + PageNumberGiven(page)][4]

\* C22: on every page whose raster image is two-colour the valid_flag of
\* PrintInformation has bit 6 (quality priority) clear whatever the job's
\* quality_priority is, and ExpandedMode has bit 0 set; on monochrome pages
\* bit 6 is the job's quality_priority.
C22_TwoColorForcesSpeed ==
    Lowered =>
        \A k \in 1..Len(Pages) :
            /\ HasPrefix(Pages[k][3], <<27, 105, 122>>)
            /\ HasPrefix(Pages[k][5 + PageNumberGiven(Pages[k])], <<27, 105, 75>>)
            /\ ImageOfPage(k).kind = "TwoColor" =>
                   ~Bit(ValidFlag(Pages[k]), 6) /\ Bit(ExpandedFlags(Pages[k]), 0)
            /\ ImageOfPage(k).kind = "Monochrome" =>
                   (Bit(ValidFlag(Pages[k]), 6) <=> TheJob.quality_priority)

\* a C62R job with quality_priority set: valid_flag 0x86, ExpandedMode bit 0
C22_Witness ==
    /\ Lowered
    /\ TheJob.media = "C62R"
    /\ TheJob.quality_priority
    /\ Len(Pages) >= 1
    /\ ImageOfPage(1).kind = "TwoColor"
    /\ ValidFlag(Pages[1]) = 134
    /\ Bit(ExpandedFlags(Pages[1]), 0)

\* the four count bytes of the page's PrintInformation, least significant first
LinesAnnounced(page) ==
    page[3][8] + 256 * page[3][9] + 65536 * page[3][10] + 16777216 * page[3][11]

\* C23: in every page block the line count announced in PrintInformation is
\* the height H of the image and the number of raster lines transferred for
\* the page (H transfers for monochrome, H per colour for two-colour), and
\* every transfer carries exactly 90 data bytes with length byte 0x5A.
C23_LineCountAndLineSize ==
    Lowered =>
        \A k \in 1..Len(Pages) :
            /\ LinesAnnounced(Pages[k]) = SourceOfPage(k).height
            /\ Len(Pages[k]) = FirstTransfer(Pages[k])
                   + (IF ImageOfPage(k).kind = "Monochrome" THEN 1 ELSE 2)
                     * SourceOfPage(k).height
            /\ \A i \in 1..Len(Pages[k]) :
                   IF i >= FirstTransfer(Pages[k]) /\ i < Len(Pages[k])
                   THEN /\ IsTransfer(Pages[k][i])
                        /\ Pages[k][i][3] = 90
                        /\ Len(Pages[k][i]) = 93
                   ELSE ~IsTransfer(Pages[k][i])

\* the C62 page of 300 lines: 2C 01 00 00 announced, 300 transfers sent
C23_Witness ==
    /\ Lowered
    /\ Len(Pages) >= 1
    /\ SourceOfPage(1).height = 300
    /\ SubSeq(Pages[1][3], 8, 11) = <<44, 1, 0, 0>>
    /\ Len(Pages[1]) = FirstTransfer(Pages[1]) + 300
    /\ Pages[1][FirstTransfer(Pages[1]) + 299] = <<103, 0, 90>> \o Zeros(90)

\* ------------------------------------------------------------------------
\* Claims about the mask and the raster layer of an image
\* ------------------------------------------------------------------------
Rastered == rast # None

\* the bit of head column c (0..719) of a raster line: the most significant
\* bit of a byte is its first column
HeadBit(line, c) == Bit(line[(c \div 8) + 1], 7 - (c % 8))

\* the pixel (x, y) of the image is printed by the layer's predicate
Printed(img, predicate, x, y) ==
    \E d \in img.dots : /\ d.x = x /\ d.y = y
                         /\ print_predicate(predicate, d.r, d.g, d.b)
                         /\ Luma(d.r, d.g, d.b) < 128

RightMargin(m) == 720 - left_margin(m) - width_dots(m)

\* C28: for every media and every layer each scanline is 720 bits wide and
\* every bit outside the columns [right_margin, right_margin + width_dots),
\* with right_margin = 720 - left_margin - width_dots >= 0, is zero; image
\* column x is placed at head column right_margin + x.
C28_ImageSitsAtRightMargin ==
    /\ \A m \in Media : RightMargin(m) >= 0 /\ left_margin(m) + width_dots(m) <= 720
    /\ Rastered =>
           \A i \in 1..Len(rast[1].layer) :
               /\ Len(rast[1].layer[i]) = 90
               /\ \A c \in 0..719 :
                      IF c >= RightMargin(rast[1].media)
                         /\ c < RightMargin(rast[1].media) + width_dots(rast[1].media)
                      THEN HeadBit(rast[1].layer[i], c)
                           <=> Printed(rast[1].img, rast[1].predicate,
                                       c - RightMargin(rast[1].media),
                                       Len(rast[1].layer) - i)
                      ELSE ~HeadBit(rast[1].layer[i], c)

\* C12 (width 106, left margin 585): the first image column is head column
\* 29, the last one head column 134
C28_Witness ==
    /\ Rastered
    /\ rast[1].media = "C12"
    /\ rast[1].predicate = "monochrome"
    /\ rast[1].img.height = 1
    /\ RightMargin("C12") = 29
    /\ HeadBit(rast[1].layer[1], 29)
    /\ HeadBit(rast[1].layer[1], 134)
    /\ ~HeadBit(rast[1].layer[1], 28)
    /\ ~HeadBit(rast[1].layer[1], 135)

\* the zero pixels that a layer, read back from its last line to its first
\* and unpacked, stands for
Unpacked(layer) ==
    { z \in (0..719) \X (0..(Len(layer) - 1)) : HeadBit(layer[Len(layer) - z[2]], z[1]) }

\* C29: for a bi-level padded mask of height H the raster layer has exactly
\* H lines, and layer line i is the packing of mask scanline H-1-i, where bit
\* 7-j of byte b is 1 iff mask pixel 8b+j of that scanline is 0; reversing
\* the layer and unpacking gives back the mask from top to bottom.
C29_LayerIsReversedPacking ==
    Rastered =>
        /\ Len(rast[1].layer) = rast[1].mask.height
        /\ \A i \in 0..(rast[1].mask.height - 1) : \A b \in 0..89 : \A j \in 0..7 :
               Bit(rast[1].layer[i + 1][b + 1], 7 - j)
               <=> <<8 * b + j, rast[1].mask.height - 1 - i>> \in rast[1].mask.zero
        /\ Unpacked(rast[1].layer) = rast[1].mask.zero

\* three rows on C62 (right margin 12): the top row's pixel at column 9 is
\* bit 2 of byte 2 of the last line, the bottom row's red pixel is in the first
C29_Witness ==
    /\ Rastered
    /\ rast[1].media = "C62"
    /\ rast[1].predicate = "monochrome"
    /\ rast[1].mask.height = 3
    /\ Len(rast[1].layer) = 3
    /\ rast[1].layer[3][3] = 4
    /\ rast[1].layer[1][4] = 4
    /\ rast[1].layer[2][89] = 16

\* ------------------------------------------------------------------------
\* Claims about the decoding of a status reply
\* ------------------------------------------------------------------------
Decoded == out_status # None

Parsed == out_status[1]

\* C24: status parsing fails with a StatusParsing error for every input whose
\* length is not 32 and for every 32-byte frame in which one of the fixed
\* offsets has a wrong value (offset 0 # 0x80, 1 # 0x20, 2 # 0x42, 3 # 0x34,
\* 5 # 0x30, or one of 7, 12, 13, 16, 23, 24 # 0x00); no such frame yields a
\* StatusInformation.
C24_WrongSizeOrFixedFieldFails ==
    (Decoded /\ (Len(in_reply) # 32 \/ \E f \in FixedFields : At(in_reply, f[1]) # f[2])) =>
        /\ ~Parsed.ok
        /\ DOMAIN Parsed = { "ok", "reason" }

\* a frame that is wrong at offset 24 only, with FF in its last byte
C24_Witness ==
    /\ Decoded
    /\ Len(in_reply) = 32
    /\ At(in_reply, 24) = 1
    /\ At(in_reply, 31) = 255
    /\ \A f \in FixedFields : f[1] # 24 => At(in_reply, f[1]) = f[2]
    /\ Parsed = ParseErr("Reserved 24")

\* C25: the outcome of status parsing, success or failure and every decoded
\* field, does not depend on the bytes at offsets 6, 14 and 25..31: a frame
\* that differs from the reply at those offsets only parses to the same result.
C25_IgnoredOffsetsDoNotMatter ==
    (Decoded /\ Len(in_reply) = 32) =>
        /\ \A o \in IgnoredOffsets : \A v \in ProbeBytes :
               StatusInformation_try_from(SetAt(in_reply, o, v)) = Parsed
        /\ \A v \in ProbeBytes :
               StatusInformation_try_from(
                   [i \in 1..32 |-> IF (i - 1) \in IgnoredOffsets THEN v ELSE in_reply[i]])
               = Parsed

\* the reply of a real unit (04 at offset 6, 15 at offset 14) with FF at
\* offset 31 is decoded, to what the reference's 30 and 3F would give
C25_Witness ==
    /\ Decoded
    /\ in_reply = SetAt(ValidFrame, 31, 255)
    /\ At(in_reply, 6) = 4 /\ At(in_reply, 14) = 21
    /\ Parsed.ok
    /\ Parsed = StatusInformation_try_from(SetAt(SetAt(ValidFrame, 6, 48), 14, 63))

\* otherwise a good reply: only offset 15 may differ from ValidFrame
OnlyModeDiffers == Len(in_reply) = 32 /\ SetAt(in_reply, 15, 0) = ValidFrame

\* C26 as stated: for every value of the byte at offset 15 parsing succeeds
\* and mode.auto_cut is bit 6 of the byte.
C26_ModeByteNeverFails ==
    (Decoded /\ OnlyModeDiffers) =>
        /\ Parsed.ok
        /\ Parsed.mode.auto_cut <=> Bit(At(in_reply, 15), 6)

\* C26: parsing succeeds iff the byte at offset 15 is 0x00 or 0x40, and then
\* mode.auto_cut is bit 6 of the byte; a byte with any other bit set makes
\* parsing fail with a StatusParsing error.
C26_ModeByteIs00Or40 ==
    (Decoded /\ OnlyModeDiffers) =>
        /\ Parsed.ok <=> At(in_reply, 15) \in { 0, 64 }
        /\ Parsed.ok => (Parsed.mode.auto_cut <=> Bit(At(in_reply, 15), 6))
        /\ ~Parsed.ok => Parsed = ParseErr("various mode data has unused bits set")

\* 0x41: bit 6 with bit 0 is refused
C26_Witness ==
    /\ Decoded
    /\ OnlyModeDiffers
    /\ At(in_reply, 15) = 65
    /\ Parsed = ParseErr("various mode data has unused bits set")

\* C27: for every otherwise valid frame the decoded error flags are
\* byte[8] + 256 * byte[9] with all 16 bits kept, the reserved ones too, and
\* has_errors() is true iff that value is not zero; so a reply with only a
\* reserved bit set is reported as a printer error by validate_status.
C27_AllSixteenFlagBitsKept ==
    /\ (Decoded /\ Parsed.ok) =>
           /\ Parsed.errors = At(in_reply, 8) + 256 * At(in_reply, 9)
           /\ \A i \in 0..7 : (Bit(Parsed.errors, i) <=> Bit(At(in_reply, 8), i))
           /\ \A i \in 0..7 : (Bit(Parsed.errors, 8 + i) <=> Bit(At(in_reply, 9), i))
           /\ has_errors(Parsed) <=> (At(in_reply, 8) # 0 \/ At(in_reply, 9) # 0)
    /\ (Checked /\ ReplyTriple = JobTriple /\ ReplyFlags # 0) =>
           /\ ~Verdict.ok
           /\ Verdict.kind = "PrinterError"
           /\ Verdict.flags = ReplyFlags

\* bit 3 alone, which has no name, on the job's media
C27_Witness ==
    /\ Checked
    /\ At(in_reply, 8) = 8 /\ At(in_reply, 9) = 0
    /\ ReplyTriple = JobTriple
    /\ Parsed.errors = 8
    /\ has_errors(Parsed)
    /\ Verdict = [ok |-> FALSE, kind |-> "PrinterError", flags |-> 8]

Refused == jpc = "built" /\ ~built[1].ok

\* the first image of the list that is not accepted
FirstRefused ==
    given[1].images[CHOOSE i \in 1..Len(given[1].images) :
                        /\ ~Accepted(given[1].images[i], given[1].media)
                        /\ \A j \in 1..(i - 1) : Accepted(given[1].images[j], given[1].media)]

\* C31: in every DimensionMismatch error expected_height is None iff the
\* media is continuous: for die-cut media it is Some(length_dots) whether the
\* width, the height or both were wrong; expected_width is the media's
\* width_dots, and actual_width and actual_height are the image's dimensions.
C31_ExpectedHeightByMedia ==
    Refused =>
        /\ built[1].err.kind = "DimensionMismatch"
        /\ built[1].err.expected_height = None <=> label_type(given[1].media) = "Continuous"
        /\ label_type(given[1].media) = "DieCut" =>
               built[1].err.expected_height = length_dots(given[1].media)
        /\ built[1].err.expected_width = width_dots(given[1].media)
        /\ built[1].err.actual_width = FirstRefused.width
        /\ built[1].err.actual_height = FirstRefused.height

\* a die-cut image one pixel too wide: the error names no expected height
C31_Witness ==
    /\ Refused
    /\ label_type(given[1].media) = "DieCut"
    /\ Len(given[1].images) = 1
    /\ given[1].images[1].width = width_dots(given[1].media) + 1
    /\ given[1].images[1].height = length_dots(given[1].media)[1]
    /\ built[1].err.expected_height = None

\* C37: adding the first image to a builder (add_label in the NoImages state)
\* changes only the image list and the type state: copies, high_dpi,
\* compressed, quality_priority and cut_behavior are what they were before.
C37_FirstLabelKeepsSettings ==
    [][(jpc = "NoImages" /\ jpc' = "HasImages") =>
          /\ bld'[1].media = bld[1].media
          /\ bld'[1].no_copies = bld[1].no_copies
          /\ bld'[1].high_dpi = bld[1].high_dpi
          /\ bld'[1].compressed = bld[1].compressed
          /\ bld'[1].quality_priority = bld[1].quality_priority
          /\ bld'[1].cut_behavior = bld[1].cut_behavior
          /\ Len(bld'[1].images) = Len(bld[1].images) + 1]_vars

\* cut_behavior(CutAtEnd) on a C62 builder, then the first add_label: the
\* builder holds CutEach again
C37_Witness ==
    /\ jpc = "HasImages"
    /\ bld[1].media = "C62"
    /\ asked.cut_behavior = Some(CutAtEnd)
    /\ Len(bld[1].images) = 1
    /\ bld[1].cut_behavior = CutEach

\* C38: in every page block the kind of raster transfer agrees with the
\* two_color bit of ExpandedMode: two-colour transfers (0x77) are sent iff
\* bit 0 is set iff the job's media supports colour, monochrome transfers
\* (0x67) iff bit 0 is clear; no job has both kinds.
C38_TransferKindFollowsMedia ==
    Lowered =>
        \A k \in 1..Len(Pages) :
            /\ Bit(ExpandedFlags(Pages[k]), 0) <=> supports_color(TheJob.media)
            /\ Len(Pages[k]) > FirstTransfer(Pages[k])
            /\ \A i \in FirstTransfer(Pages[k])..(Len(Pages[k]) - 1) :
                   Pages[k][i][1] = (IF supports_color(TheJob.media) THEN 119 ELSE 103)

\* a job of two pages on C62R: bit 0 set and 0x77 transfers on both
C38_Witness ==
    /\ Lowered
    /\ TheJob.media = "C62R"
    /\ Len(Pages) = 2
    /\ \A k \in 1..2 : /\ Bit(ExpandedFlags(Pages[k]), 0)
                        /\ Pages[k][FirstTransfer(Pages[k])][1] = 119
                        /\ Pages[k][Len(Pages[k]) - 1][1] = 119

\* ------------------------------------------------------------------------
\* Claims about how print() ends
\* ------------------------------------------------------------------------
\* a transport call or a check that failed, as the history records it
IsFailure(ev) ==
    \/ ev.e = "write" /\ ev.r # "none"
    \/ ev.e = "status_read" /\ ev.what # "Ok"
    \/ ev.e = "validate" /\ ev.n = 0

\* the error print() returns for a failure
ReturnsThat(ev) ==
    /\ pc = "done"
    /\ ~result[1].ok
    /\ CASE ev.e = "write" ->
               \* a write of print() itself, or one made inside get_status()
               \/ result[1].source.kind = "Connection" /\ result[1].source.err = ev.r
               \/ /\ result[1].source.kind = "Status"
                  /\ result[1].source.err = StatusError_Connection(ev.r)
                  /\ ev.what # "page"
         [] ev.e = "status_read" ->
               /\ result[1].source.kind = "Status"
               /\ result[1].source.err.kind
                      = (IF ev.what = "IO" THEN "Connection" ELSE ev.what)
         [] ev.e = "validate" ->
               /\ result[1].source.kind = "Protocol"
               /\ result[1].source.err
                      = validate_status(ev.reply[1], job[1].media, ev.what, ev.r)

\* C32: after the first failing transport write, status read, status parse
\* or status validation, print() makes no further transport write or read
\* and returns that error: the failure is the last thing in the history of
\* the call, and a call that returns an error has such a failure last.
C32_FirstFailureEndsPrint ==
    op = "print" =>
        /\ \A i \in 1..Len(events) :
               IsFailure(events[i]) => i = Len(events) /\ ReturnsThat(events[i])
        /\ PrintFailed => Len(events) > 0 /\ IsFailure(events[Len(events)])

\* a job of two pages whose first page's second reply does not parse: the
\* second page is never written
C32_Witness ==
    /\ PrintFailed
    /\ page_count(job[1]) = 2
    /\ Len(PageWrites) = 1
    /\ step = 2
    /\ events[Len(events)].e = "status_read"
    /\ events[Len(events)].what = "Parsing"
    /\ result[1].page_no = 1

\* C33: read_exact terminates on every transport whose reads return: a read
\* with data strictly raises total_read, which never passes 32, so one call
\* makes at most 32 of them; there are never more than 61 empty reads in a
\* row and the retry counter never exceeds 61; Ok is returned only with
\* exactly the 32 bytes that arrived, in the order they arrived; and print()
\* on a transport that yields no data ends with
\* PrintError{page_no = 0, source = Status(NoResponse)}.
C33_ReadExactTerminates ==
    /\ [](/\ retries <= MAX_RETRIES + 1
          /\ empty_run <= MAX_RETRIES + 1
          /\ total_read <= StatusLen
          /\ total_read = Len(arrived)
          /\ pc = "read" => retries <= MAX_RETRIES /\ total_read < StatusLen
          /\ pc = "parse" => total_read = StatusLen /\ buffer = arrived
          /\ (op = "print" /\ status = None /\ empty_run = MAX_RETRIES + 1) =>
                 /\ pc = "done"
                 /\ result[1] = PrintError("Status", StatusError_NoResponse, 0))
    /\ [][total_read' # total_read =>
             total_read' > total_read \/ (total_read' = 0 /\ pc # "read")]_vars
    /\ (pc = "read") ~> (pc # "read")

\* print() met 61 empty reads before any data: NoResponse at page 0
C33_Witness ==
    /\ op = "print"
    /\ pc = "done"
    /\ status = None
    /\ total_read = 0
    /\ empty_run = 61
    /\ retries = 61
    /\ result[1] = PrintError("Status", StatusError_NoResponse, 0)

\* the positions of the writes of the preamble during the call in progress
PreambleWrites == { i \in 1..Len(events) : events[i].e = "write" /\ events[i].what = "preamble" }

\* C34: during one print() the preamble (400 zero bytes, then 1B 40) is written
\* exactly once, before the StatusInformationRequest, and never again.
C34_PreambleWrittenOnce ==
    op = "print" =>
        /\ Cardinality(PreambleWrites) <= 1
        /\ \A i \in 1..Len(events) :
              (events[i].e = "write" /\ events[i].what = "status_request") =>
                  /\ Cardinality(PreambleWrites) = 1
                  /\ \A j \in PreambleWrites : j < i

C34_Witness ==
    /\ op = "print"
    /\ Len(events) >= 3
    /\ events[1].e = "write" /\ events[1].what = "preamble"
    /\ events[1].data = Zeros(400) \o <<27, 64>> /\ events[1].n = 402
    /\ events[2].e = "write" /\ events[2].what = "preamble"
    /\ events[2].data = Zeros(400) \o <<27, 64>> /\ events[2].n = 402
    /\ events[3].e = "write" /\ events[3].what = "status_request"
    /\ events[3].data = <<27, 105, 83>>

\* the bytes the transport took from the page writes so far, in order
PageBytesWritten ==
    Concat([p \in 1..Len(PageWrites) |-> SubSeq(PageWrites[p].data, 1, PageWrites[p].n)])

\* C35: the page byte blocks a successful print() writes, concatenated in
\* order, are the bytes of compile() after its leading 402-byte preamble.
C35_PageBytesAreCompileOutput ==
    (op = "print" /\ pc = "done" /\ result[1].ok) =>
        /\ Len(build(into_parts(job[1]).preamble)) = 402
        /\ SubSeq(compile(job[1]), 1, 402) = build(into_parts(job[1]).preamble)
        /\ PageBytesWritten = SubSeq(compile(job[1]), 403, Len(compile(job[1])))

C35_Witness ==
    /\ op = "print" /\ pc = "done" /\ result[1].ok
    /\ page_count(job[1]) = 2
    /\ Len(PageWrites) = 2
    /\ PageWrites[1].data # PageWrites[2].data
    /\ Len(PageBytesWritten) = Len(compile(job[1])) - 402
    /\ Len(PageBytesWritten) > 0

\* the other one of the two 62 mm continuous tapes
OtherTape(m) == IF m = "C62" THEN "C62R" ELSE "C62"

\* the verdict of the same check made for the job's media replaced by m
VerdictFor(m) == validate_status(out_status[1], m, Waited[1], Waited[2])

\* C36: the media check cannot tell C62 from C62R: both have the triple
\* (continuous, 62, 0), so a job of either passes validation against exactly
\* the replies a job of the other passes; a MediaMismatch for a reply with that
\* triple reports C62, never C62R; every other two media of the catalogue have
\* different triples.
C36_C62AndC62RAlike ==
    /\ MediaTriple("C62") = <<10, 62, 0>>
    /\ MediaTriple("C62R") = <<10, 62, 0>>
    /\ \A m \in Media \ {in_media} :
          MediaTriple(m) = JobTriple => {m, in_media} = {"C62", "C62R"}
    /\ (Checked /\ in_media \in {"C62", "C62R"}) =>
          /\ Verdict.ok = VerdictFor(OtherTape(in_media)).ok
          /\ ~Verdict.ok => Verdict.kind = VerdictFor(OtherTape(in_media)).kind
    /\ (Checked /\ ~Verdict.ok /\ Verdict.kind = "MediaMismatch"
          /\ ReplyTriple = <<10, 62, 0>>) =>
          /\ Verdict.reported_media = Some("C62")
          /\ in_media \notin {"C62", "C62R"}

C36_Witness ==
    /\ Checked
    /\ in_media = "D17x54"
    /\ ReplyTriple = MediaTriple("C62R")
    /\ ~Verdict.ok
    /\ Verdict.kind = "MediaMismatch"
    /\ Verdict.reported_media = Some("C62")
    /\ VerdictFor("C62R").ok
    /\ VerdictFor("C62").ok

\* a job without pages: no copies, or no image
ZeroPageJob(j) == j.no_copies = 0 \/ j.raster_images = << >>

\* C39: a job of zero pages (copies = 0, or an empty image list) lowers to no
\* page block and no terminator: compile() is the 402-byte preamble alone, the
\* last-page test page_no == page_count() - 1 is never evaluated, and print()
\* returns Ok as soon as the initial status reply is validated, without a page
\* write.
C39_ZeroPageJob ==
    (op = "print" /\ ZeroPageJob(job[1])) =>
        /\ page_count(job[1]) = 0
        /\ into_parts(job[1]).page_data = << >>
        /\ compile(job[1]) = Zeros(400) \o <<27, 64>>
        /\ Len(compile(job[1])) = 402
        /\ PageWrites = << >>
        /\ pc # "page_write"
        /\ Len(StatusReads) <= 1
        /\ (events # << >> /\ events[Len(events)].e = "validate") =>
              /\ pc = "done"
              /\ events[Len(events)].what = "StatusRequestReply"
              /\ events[Len(events)].r = "Receiving"
              /\ result[1].ok <=> events[Len(events)].n = 1
        /\ (pc = "done" /\ result[1].ok) =>
              /\ events # << >>
              /\ IsValidated(events[Len(events)], "StatusRequestReply", "Receiving")

C39_Witness ==
    /\ op = "print" /\ pc = "done"
    /\ job[1].no_copies = 0
    /\ Len(job[1].raster_images) = 1
    /\ result[1].ok
    /\ PageWrites = << >>
    /\ Len(StatusReads) = 1
    /\ IsValidated(events[Len(events)], "StatusRequestReply", "Receiving")

====
